---- MODULE Spec2Model ----
(***************************************************************************)
(* Termite routing core: the route store and route engine (RouteManager),  *)
(* the token-bucket rate limiter, the route and topology watchers and the  *)
(* Pool admission webhook, as state machines translated from the Go        *)
(* sources.                                                                *)
(*                                                                         *)
(* Strings that the code inspects (names compared with <, glob patterns,   *)
(* regular expressions) are sequences of one-character strings; strings    *)
(* that are only compared for equality are TLA+ strings.                   *)
(***************************************************************************)
EXTENDS Integers, Sequences, FiniteSets, TLC

VARIABLES
    routes,     \* RouteManager.routes: the stored route list
    latest,     \* history: per name, the route of the latest AddRoute (NoRoute after RemoveRoute)
    last,       \* history: the last operation, its input and its result
    now,        \* time.Now(), in ticks
    rl,         \* a RateLimiter on its own
    admitted,   \* history: per tick and model, the number of calls rl has admitted
    informer,   \* the names of the TermiteRoute objects the informer holds
    registry,   \* the endpoint registry: address -> pool and workload type
    slices,     \* the EndpointSlice objects the informer holds, by name
    pods,       \* the Pod objects the informer holds, by name
    reported,   \* history: per host, the ready condition reported last
    termitePool, \* the spec of the admitted TermitePool, if there is one
    first,      \* history: the spec the TermitePool was first admitted with
    calls,      \* the Match call each dispatcher is in, and how far it is
    returned,   \* history: per route name, the Match calls that returned the
                \* route since it was last added
    cache,      \* the ttlcache of the reranking cache: key -> scores and expiry
    sfGroup,    \* CachedReranker.sfGroup: key -> the call in flight
    stats,      \* CachedReranker.hits, misses and sfHits
    reranked    \* history: per key, the calls of the underlying reranker and
                \* how the Rerank calls ended

vars == <<routes, latest, last, now, rl, admitted, informer,
          registry, slices, pods, reported, termitePool, first, calls, returned,
          cache, sfGroup, stats, reranked>>
cacheVars == <<cache, sfGroup, stats, reranked>>
topologyVars == <<registry, slices, pods, reported>>
poolVars == <<termitePool, first>>
callVars == <<calls, returned>>
storeVars == <<routes, latest>>
limiterVars == <<now, rl, admitted>>

----------------------------------------------------------------------------
(* Bounds *)

MaxMatched == 1     \* cap of Route.MatchedRequests (an int64 in the code)
TicksPerSecond == 2 \* resolution of the clock
MaxTime == 4        \* the clock stops after this many ticks

----------------------------------------------------------------------------
(* Strings *)

\* Byte value of the characters the model uses (Go compares strings bytewise).
Ord(c) ==
    CASE c = "(" -> 40 [] c = "*" -> 42 [] c = "-" -> 45 [] c = "." -> 46
      [] c = "/" -> 47 [] c = "a" -> 97 [] c = "b" -> 98 [] c = "c" -> 99
      [] OTHER -> 120

RECURSIVE StrLess(_, _)
\* Go's s < t on strings: lexicographic on bytes, a proper prefix is smaller.
StrLess(s, t) ==
    IF t = <<>> THEN FALSE
    ELSE IF s = <<>> THEN TRUE
    ELSE IF Head(s) = Head(t) THEN StrLess(Tail(s), Tail(t))
    ELSE Ord(Head(s)) < Ord(Head(t))

RECURSIVE HasPrefix(_, _)
\* strings.HasPrefix
HasPrefix(s, p) ==
    IF p = <<>> THEN TRUE
    ELSE IF s = <<>> THEN FALSE
    ELSE Head(s) = Head(p) /\ HasPrefix(Tail(s), Tail(p))

----------------------------------------------------------------------------
(* Regular expressions.  A compiled expression is a sequence of elements   *)
(* [c, any, star]: the element accepts the literal character c, or every   *)
(* character when any is set (the model's alphabet has no newline, the one *)
(* character "." rejects); star says it may repeat zero or more times.     *)

NoRegex == [none |-> "regex"]
CompileError == [error |-> "compile"]

Accepts(e, ch) == e.any \/ e.c = ch

RECURSIVE MatchElems(_, _)
\* Anchored match of the whole string s against the elements re.
MatchElems(re, s) ==
    IF re = <<>> THEN s = <<>>
    ELSE LET e == Head(re) IN
         IF e.star
         THEN MatchElems(Tail(re), s)
              \/ (s # <<>> /\ Accepts(e, Head(s)) /\ MatchElems(re, Tail(s)))
         ELSE s # <<>> /\ Accepts(e, Head(s)) /\ MatchElems(Tail(re), Tail(s))

AnyStar == [c |-> ".", any |-> TRUE, star |-> TRUE]
Literal(ch) == [c |-> ch, any |-> FALSE, star |-> FALSE]

\* A compiled expression carries its elements and whether it is anchored.
MatchString(rx, s) ==
    IF rx.anchored THEN MatchElems(rx.elems, s)
    ELSE MatchElems(<<AnyStar>> \o rx.elems \o <<AnyStar>>, s)

RECURSIVE GlobElems(_)
\* regexp.QuoteMeta makes every character but * a literal; \* becomes .*
GlobElems(p) ==
    IF p = <<>> THEN <<>>
    ELSE <<IF Head(p) = "*" THEN AnyStar ELSE Literal(Head(p))>>
         \o GlobElems(Tail(p))

\* CompileModelPattern: "^" + quoted pattern with * as .* + "$"
CompileModelPattern(pattern) == [anchored |-> TRUE, elems |-> GlobElems(pattern)]

RECURSIVE RegexElems(_)
\* The elements of a regular expression over literals, "." and postfix "*".
RegexElems(src) ==
    IF src = <<>> THEN <<>>
    ELSE IF Len(src) >= 2 /\ src[2] = "*"
         THEN <<[c |-> Head(src), any |-> Head(src) = ".", star |-> TRUE]>>
              \o RegexElems(Tail(Tail(src)))
         ELSE <<[c |-> Head(src), any |-> Head(src) = ".", star |-> FALSE]>>
              \o RegexElems(Tail(src))

\* regexp.Compile fails on an unclosed group and on a repetition operator
\* that has no operand or follows another repetition.
RegexSyntaxOk(src) ==
    /\ \A i \in 1..Len(src) : src[i] # "("
    /\ \A i \in 1..Len(src) : src[i] = "*" => (i > 1 /\ src[i-1] # "*")

\* regexp.Compile(src): an unanchored expression, or an error.
RegexpCompile(src) ==
    IF RegexSyntaxOk(src) THEN [anchored |-> FALSE, elems |-> RegexElems(src)]
    ELSE CompileError

RECURSIVE ReplaceStar(_)
\* strings.ReplaceAll(pattern, "*", ".*")
ReplaceStar(p) ==
    IF p = <<>> THEN <<>>
    ELSE (IF Head(p) = "*" THEN <<".", "*">> ELSE <<Head(p)>>) \o ReplaceStar(Tail(p))

\* regexp.Compile("^" + regexPattern + "$") of TermiteRoute.validateMatch:
\* the anchored expression of the pattern with every * replaced by .*
GlobRegexp(pattern) ==
    IF RegexpCompile(ReplaceStar(pattern)) = CompileError THEN CompileError
    ELSE [anchored |-> TRUE, elems |-> RegexpCompile(ReplaceStar(pattern)).elems]

\* TermiteRoute.validateMatch on one model pattern: not empty, and with a
\* wildcard the expression above compiles.
ValidModelPattern(pattern) ==
    /\ pattern # <<>>
    /\ (\E i \in 1..Len(pattern) : pattern[i] = "*") => GlobRegexp(pattern) # CompileError

----------------------------------------------------------------------------
(* Matchers of the route engine *)

\* StringMatcher.Matches
StringMatcherMatches(m, value) ==
    \/ m.Exact # <<>> /\ value = m.Exact
    \/ m.Prefix # <<>> /\ HasPrefix(value, m.Prefix)
    \/ m.Regex # NoRegex /\ MatchString(m.Regex, value)

NoTimeWindow == [none |-> "timeWindow"]

\* Mutant of IsActive: a window is never taken as running past midnight.
IsActiveSameDay(tw, t) ==
    IF tw.Days # {} /\ t.weekday \notin tw.Days THEN FALSE
    ELSE /\ t.hour * 60 + t.minute >= tw.StartHour * 60 + tw.StartMinute
         /\ t.hour * 60 + t.minute < tw.EndHour * 60 + tw.EndMinute

\* TimeWindow.IsActive; a time t is [weekday, hour, minute] in UTC.
IsActive(tw, t) ==
    IF tw.Days # {} /\ t.weekday \notin tw.Days THEN FALSE
    ELSE LET currentMinutes == t.hour * 60 + t.minute
             startMinutes == tw.StartHour * 60 + tw.StartMinute
             endMinutes == tw.EndHour * 60 + tw.EndMinute
         IN  IF startMinutes <= endMinutes
             THEN currentMinutes >= startMinutes /\ currentMinutes < endMinutes
             ELSE currentMinutes >= startMinutes \/ currentMinutes < endMinutes

\* Mutant of matchRoute: a header the request does not carry is passed over.
matchRouteHeaderOptional(route, req) ==
    /\ route.Operations # {} => req.Operation \in route.Operations
    /\ Len(route.ModelPatterns) > 0 =>
          \E i \in 1..Len(route.ModelPatterns) :
              MatchString(route.ModelPatterns[i], req.Model)
    /\ \A h \in DOMAIN route.HeaderMatchers :
          h \in DOMAIN req.Headers
          => StringMatcherMatches(route.HeaderMatchers[h], req.Headers[h])
    /\ route.SourceTables # {} => req.SourceTable \in route.SourceTables
    /\ route.TimeWindow # NoTimeWindow => IsActive(route.TimeWindow, req.Timestamp)

\* RouteManager.matchRoute
matchRoute(route, req) ==
    /\ route.Operations # {} => req.Operation \in route.Operations
    /\ Len(route.ModelPatterns) > 0 =>
          \E i \in 1..Len(route.ModelPatterns) :
              MatchString(route.ModelPatterns[i], req.Model)
    /\ \A h \in DOMAIN route.HeaderMatchers :
          h \in DOMAIN req.Headers
          /\ StringMatcherMatches(route.HeaderMatchers[h], req.Headers[h])
    /\ route.SourceTables # {} => req.SourceTable \in route.SourceTables
    /\ route.TimeWindow # NoTimeWindow => IsActive(route.TimeWindow, req.Timestamp)

----------------------------------------------------------------------------
(* Route store (RouteManager) *)

NoRoute == [none |-> "route"]
NoLimiter == [none |-> "limiter"]
NoFallback == [none |-> "fallback"]
ZeroTime == [weekday |-> 0, hour |-> 0, minute |-> 0]

\* A compiled Route as RouteWatcher.convertRoute or a caller builds it.
MkRoute(name, priority, block) ==
    [Name |-> name, Priority |-> priority,
     Operations |-> block.Operations,
     ModelPatterns |-> block.ModelPatterns,
     HeaderMatchers |-> block.HeaderMatchers,
     SourceTables |-> block.SourceTables,
     TimeWindow |-> block.TimeWindow,
     Destinations |-> <<>>,
     Fallback |-> NoFallback,
     RateLimiter |-> NoLimiter,
     RetryAttempts |-> 0,
     RetryOnStatuses |-> {},
     MatchedRequests |-> 0,
     LastMatchTime |-> ZeroTime]

\* The fields of a route that Match never writes.
Config(r) ==
    IF r = NoRoute THEN NoRoute
    ELSE [r EXCEPT !.MatchedRequests = 0, !.LastMatchTime = ZeroTime]

\* Mutant of RouteLess: the priorities are compared the wrong way round.
RouteLessAscending(a, b) ==
    IF a.Priority # b.Priority THEN a.Priority < b.Priority
    ELSE StrLess(a.Name, b.Name)

\* The comparison AddRoute hands to sort.Slice.
RouteLess(a, b) ==
    IF a.Priority # b.Priority THEN a.Priority > b.Priority
    ELSE StrLess(a.Name, b.Name)

RECURSIVE InsertRoute(_, _)
InsertRoute(sorted, r) ==
    IF sorted = <<>> THEN <<r>>
    ELSE IF RouteLess(r, Head(sorted)) THEN <<r>> \o sorted
    ELSE <<Head(sorted)>> \o InsertRoute(Tail(sorted), r)

\* Mutant of SortRoutes: the sort is left out.
SortRoutesOmitted(rs) == rs

RECURSIVE SortRoutes(_)
\* sort.Slice(newRoutes, less): the routes in the order of RouteLess.
SortRoutes(rs) ==
    IF rs = <<>> THEN <<>>
    ELSE InsertRoute(SortRoutes(Tail(rs)), Head(rs))

\* Mutant of WithoutName: routes whose name starts with the name are dropped too.
WithoutNamePrefix(rs, name) == SelectSeq(rs, LAMBDA r : ~HasPrefix(r.Name, name))

\* The loop of AddRoute and RemoveRoute that drops the route of a name.
WithoutName(rs, name) == SelectSeq(rs, LAMBDA r : r.Name # name)

\* Mutant of AddRouteOp: the stored route of the same name is kept.
AddRouteNoReplace(rs, route) == SortRoutes(Append(rs, route))

\* RouteManager.AddRoute: the new value of rm.routes.
AddRouteOp(rs, route) == SortRoutes(Append(WithoutName(rs, route.Name), route))

\* RouteManager.RemoveRoute: the new value of rm.routes.
RemoveRouteOp(rs, name) == WithoutName(rs, name)

\* The entry stored under a name (the first one), NoRoute when there is none.
Stored(rs, name) ==
    IF \E i \in 1..Len(rs) : rs[i].Name = name
    THEN rs[CHOOSE i \in 1..Len(rs) :
                rs[i].Name = name /\ \A j \in 1..(i-1) : rs[j].Name # name]
    ELSE NoRoute

\* The position of the route Match returns, 0 when it returns nil.
MatchIndex(rs, req) ==
    IF \E i \in 1..Len(rs) : matchRoute(rs[i], req)
    THEN CHOOSE i \in 1..Len(rs) :
            /\ matchRoute(rs[i], req)
            /\ \A j \in 1..(i-1) : ~matchRoute(rs[j], req)
    ELSE 0

\* The route list after Match has updated the statistics of the route it returns.
MatchOp(rs, req) ==
    LET i == MatchIndex(rs, req) IN
    IF i = 0 THEN rs
    ELSE [rs EXCEPT ![i].MatchedRequests = @ + 1, ![i].LastMatchTime = req.Timestamp]

\* Mutant of AtomicAddInt64: the counter is loaded when the route is found
\* and stored later, as counter = loaded + 1.
LoadThenStore(current, loaded) == loaded + 1

\* atomic.AddInt64(&route.MatchedRequests, 1): one indivisible read-modify-write
\* of the counter as it is at that instant.
AtomicAddInt64(current, loaded) == current + 1

----------------------------------------------------------------------------
(* Token-bucket rate limiter.  Time is counted in ticks and tokens in       *)
(* 1/TicksPerSecond of a token, so that elapsed seconds * rate is the      *)
(* integer elapsedTicks * rate and the arithmetic is exact.                *)

OneToken == TicksPerSecond

\* Mutant of Refill: the cap at burstSize is left out.
RefillUncapped(tokens, elapsed, rate, burstSize) == tokens + elapsed * rate

\* The refill of Allow: tokens += elapsed * rate, capped at burstSize.
Refill(tokens, elapsed, rate, burstSize) ==
    IF tokens + elapsed * rate > burstSize * OneToken
    THEN burstSize * OneToken
    ELSE tokens + elapsed * rate

\* NewRateLimiter(rps, burst, perModel) called at time t.
NewRateLimiter(rps, burst, perModel, t) ==
    [rate |-> rps, burstSize |-> burst, tokens |-> burst * OneToken,
     lastUpdate |-> t, perModel |-> perModel, modelLimits |-> <<>>]

\* The bucket Allow works on: the one of the model (created full when it
\* is missing) in per-model mode, the limiter's own otherwise.
BucketOf(l, model, t) ==
    IF l.perModel
    THEN IF model \in DOMAIN l.modelLimits THEN l.modelLimits[model]
         ELSE [tokens |-> l.burstSize * OneToken, lastUpdate |-> t]
    ELSE [tokens |-> l.tokens, lastUpdate |-> l.lastUpdate]

\* Mutant of WithBucket: in per-model mode the bucket is written for every model known.
WithBucketShared(l, model, b) ==
    IF l.perModel
    THEN [l EXCEPT !.modelLimits = [m \in DOMAIN l.modelLimits \cup {model} |-> b]]
    ELSE [l EXCEPT !.tokens = b.tokens, !.lastUpdate = b.lastUpdate]

\* The limiter with the bucket of the model set to b.
WithBucket(l, model, b) ==
    IF l.perModel
    THEN [l EXCEPT !.modelLimits =
            [m \in DOMAIN l.modelLimits \cup {model} |->
                IF m = model THEN b ELSE l.modelLimits[m]]]
    ELSE [l EXCEPT !.tokens = b.tokens, !.lastUpdate = b.lastUpdate]

\* Mutant of AllowOp: an admitted call leaves its token in the bucket.
AllowOpKeepsToken(l, model, t) ==
    LET b == BucketOf(l, model, t)
        refilled == Refill(b.tokens, t - b.lastUpdate, l.rate, l.burstSize)
    IN  [ok |-> refilled >= OneToken,
         limiter |-> WithBucket(l, model, [tokens |-> refilled, lastUpdate |-> t])]

\* RateLimiter.Allow(model) at time t, under rl.mu: the result and the limiter after it.
AllowOp(l, model, t) ==
    LET b == BucketOf(l, model, t)
        refilled == Refill(b.tokens, t - b.lastUpdate, l.rate, l.burstSize)
        ok == refilled >= OneToken
    IN  [ok |-> ok,
         limiter |-> WithBucket(l, model,
                        [tokens |-> IF ok THEN refilled - OneToken ELSE refilled,
                         lastUpdate |-> t])]

----------------------------------------------------------------------------
(* Parsing helpers of the route watcher *)

Absent == [none |-> "absent"]
Some(x) == [v |-> x]

Digit(c) ==
    CASE c = "0" -> 0 [] c = "1" -> 1 [] c = "2" -> 2 [] c = "3" -> 3
      [] c = "4" -> 4 [] c = "5" -> 5 [] c = "6" -> 6 [] c = "7" -> 7
      [] c = "8" -> 8 [] c = "9" -> 9 [] OTHER -> -1

IsDigit(c) == Digit(c) >= 0

RECURSIVE DigitsValue(_, _)
\* The number the digits of s spell, behind the digits already read as acc.
DigitsValue(s, acc) ==
    IF s = <<>> THEN acc ELSE DigitsValue(Tail(s), acc * 10 + Digit(Head(s)))

\* The digits of s behind an optional sign.
Unsigned(s) == IF s # <<>> /\ Head(s) \in {"-", "+"} THEN Tail(s) ELSE s

\* strconv.Atoi succeeds on an optionally signed, non-empty digit string.
AtoiOk(s) == Unsigned(s) # <<>> /\ \A i \in 1..Len(Unsigned(s)) : IsDigit(Unsigned(s)[i])

\* strconv.Atoi with the error dropped (window.StartHour, _ = strconv.Atoi(..)):
\* the value of the string, 0 when Atoi fails.
AtoiOrZero(s) ==
    IF ~AtoiOk(s) THEN 0
    ELSE IF Head(s) = "-" THEN 0 - DigitsValue(Unsigned(s), 0)
    ELSE DigitsValue(Unsigned(s), 0)

RECURSIVE SplitOn(_, _)
\* strings.Split(s, sep) for a one-character separator.
SplitOn(s, sep) ==
    IF \A i \in 1..Len(s) : s[i] # sep THEN <<s>>
    ELSE LET k == CHOOSE i \in 1..Len(s) :
                      s[i] = sep /\ \A j \in 1..(i-1) : s[j] # sep
         IN  <<SubSeq(s, 1, k - 1)>> \o SplitOn(SubSeq(s, k + 1, Len(s)), sep)

\* The hour and minute parseTimeWindow reads from "HH:MM"; both stay 0
\* unless the string has exactly two parts.
ParseClock(x) ==
    IF x = Absent THEN [hour |-> 0, minute |-> 0]
    ELSE LET parts == SplitOn(x.v, ":") IN
         IF Len(parts) = 2
         THEN [hour |-> AtoiOrZero(parts[1]), minute |-> AtoiOrZero(parts[2])]
         ELSE [hour |-> 0, minute |-> 0]

\* parseTimeWindow
parseTimeWindow(tw) ==
    [StartHour |-> ParseClock(tw.start).hour, StartMinute |-> ParseClock(tw.start).minute,
     EndHour |-> ParseClock(tw.end).hour, EndMinute |-> ParseClock(tw.end).minute,
     Days |-> tw.days]

\* strings.CutSuffix
HasSuffix(s, suf) ==
    Len(s) >= Len(suf) /\ SubSeq(s, Len(s) - Len(suf) + 1, Len(s)) = suf
CutSuffix(s, suf) == SubSeq(s, 1, Len(s) - Len(suf))

RECURSIVE FloatScan(_, _, _, _)
\* The loop of parseFloatInternal over the characters behind a leading "-":
\* digits build num/den, every "." switches to the fraction, and every
\* other character is skipped.  The result is the fraction num/den.
FloatScan(s, num, den, inDecimal) ==
    IF s = <<>> THEN [num |-> num, den |-> den]
    ELSE IF Head(s) = "." THEN FloatScan(Tail(s), num, den, TRUE)
    ELSE IF IsDigit(Head(s))
         THEN IF inDecimal
              THEN FloatScan(Tail(s), num * 10 + Digit(Head(s)), den * 10, TRUE)
              ELSE FloatScan(Tail(s), num * 10 + Digit(Head(s)), den, FALSE)
    ELSE FloatScan(Tail(s), num, den, inDecimal)

\* parseFloatInternal: never an error; the value as a fraction num/den.
parseFloat(s) ==
    IF s # <<>> /\ Head(s) = "-"
    THEN LET r == FloatScan(Tail(s), 0, 1, FALSE) IN [num |-> 0 - r.num, den |-> r.den]
    ELSE FloatScan(s, 0, 1, FALSE)

\* Mutant of ParseThresholdCondition: the suffix ms is cut but the value is not divided.
ParseThresholdUndivided(s) ==
    LET operator ==
            IF HasPrefix(s, <<">", "=">>) THEN ">="
            ELSE IF HasPrefix(s, <<"<", "=">>) THEN "<="
            ELSE IF HasPrefix(s, <<">">>) THEN ">"
            ELSE IF HasPrefix(s, <<"<">>) THEN "<"
            ELSE "=="
        valueStr ==
            IF HasPrefix(s, <<">", "=">>) \/ HasPrefix(s, <<"<", "=">>)
               \/ HasPrefix(s, <<"=", "=">>)
            THEN SubSeq(s, 3, Len(s))
            ELSE IF HasPrefix(s, <<">">>) \/ HasPrefix(s, <<"<">>) THEN Tail(s)
            ELSE s
    IN  [Operator |-> operator, Value |-> parseFloat(valueStr)]

\* ParseThresholdCondition (its input without surrounding spaces): the
\* operator prefix, then the value with the suffix ms (divided by 1000), s or none.
ParseThresholdCondition(s) ==
    LET operator ==
            IF HasPrefix(s, <<">", "=">>) THEN ">="
            ELSE IF HasPrefix(s, <<"<", "=">>) THEN "<="
            ELSE IF HasPrefix(s, <<">">>) THEN ">"
            ELSE IF HasPrefix(s, <<"<">>) THEN "<"
            ELSE "=="
        valueStr ==
            IF HasPrefix(s, <<">", "=">>) \/ HasPrefix(s, <<"<", "=">>)
               \/ HasPrefix(s, <<"=", "=">>)
            THEN SubSeq(s, 3, Len(s))
            ELSE IF HasPrefix(s, <<">">>) \/ HasPrefix(s, <<"<">>) THEN Tail(s)
            ELSE s
        value ==
            IF HasSuffix(valueStr, <<"m", "s">>)
            THEN LET v == parseFloat(CutSuffix(valueStr, <<"m", "s">>)) IN
                 [num |-> v.num, den |-> v.den * 1000]
            ELSE IF HasSuffix(valueStr, <<"s">>)
                 THEN parseFloat(CutSuffix(valueStr, <<"s">>))
                 ELSE parseFloat(valueStr)
    IN  [Operator |-> operator, Value |-> value]

\* ThresholdCondition.Evaluate on the fraction x (den > 0 on both sides).
Evaluate(c, x) ==
    LET l == x.num * c.Value.den
        r == c.Value.num * x.den
    IN  CASE c.Operator = ">" -> l > r
          [] c.Operator = "<" -> l < r
          [] c.Operator = ">=" -> l >= r
          [] c.Operator = "<=" -> l <= r
          [] c.Operator = "==" -> l = r
          [] OTHER -> FALSE

----------------------------------------------------------------------------
(* RouteWatcher.convertRoute: from the unstructured TermiteRoute object to *)
(* the compiled Route.  An optional field of the object is Absent or       *)
(* Some(value); a string the code only copies is absent when empty.        *)

NoCondition == [none |-> "condition"]
ConvertError == [error |-> "convert"]

\* getInt32: the number clamped to int32, the default when the key is missing.
getInt32(x, defaultVal) ==
    IF x = Absent THEN defaultVal
    ELSE IF x.v > 2147483647 THEN 2147483647
    ELSE IF x.v < (-2147483647) - 1 THEN (-2147483647) - 1
    ELSE x.v

\* A header matcher: exact and prefix copied, the regex kept only if it compiles.
ConvertHeader(h) ==
    [Exact |-> h.exact, Prefix |-> h.prefix,
     Regex |-> IF h.regex # Absent /\ RegexpCompile(h.regex.v) # CompileError
               THEN RegexpCompile(h.regex.v) ELSE NoRegex]

\* ParseThresholdCondition never returns an error, so a present string always gives a condition.
ConvertThreshold(x) == IF x = Absent THEN NoCondition ELSE ParseThresholdCondition(x.v)

ConvertDestination(d) ==
    [Pool |-> d.pool, Weight |-> getInt32(d.weight, 100),
     QueueDepthCondition |->
        IF d.condition = Absent THEN NoCondition
        ELSE ConvertThreshold(d.condition.v.queueDepth),
     ReplicaCondition |->
        IF d.condition = Absent THEN NoCondition
        ELSE ConvertThreshold(d.condition.v.availableReplicas),
     LatencyCondition |->
        IF d.condition = Absent THEN NoCondition
        ELSE ConvertThreshold(d.condition.v.latency),
     RequireModelLoaded |-> d.condition # Absent /\ d.condition.v.modelLoaded,
     TimeCondition |->
        IF d.condition = Absent \/ d.condition.v.timeOfDay = Absent THEN NoTimeWindow
        ELSE parseTimeWindow(d.condition.v.timeOfDay.v)]

ConvertFallback(f) ==
    IF f = Absent THEN NoFallback
    ELSE [Action |-> f.v.action, MaxQueueTime |-> 0, RedirectPool |-> f.v.redirectPool,
          StatusCode |-> IF f.v.errorResponse = Absent THEN 0
                         ELSE getInt32(f.v.errorResponse.v.statusCode, 503),
          Message |-> IF f.v.errorResponse = Absent THEN ""
                      ELSE f.v.errorResponse.v.message,
          RetryAfter |-> IF f.v.errorResponse = Absent
                            \/ f.v.errorResponse.v.retryAfter = Absent THEN 0
                         ELSE f.v.errorResponse.v.retryAfter.v]

\* The rate limiter of the route: built full at time t when requestsPerSecond > 0.
ConvertRateLimiting(x, t) ==
    IF x = Absent THEN NoLimiter
    ELSE LET rps == getInt32(x.v.requestsPerSecond, 0)
             burst == getInt32(x.v.burstSize, rps)
         IN  IF rps > 0 THEN NewRateLimiter(rps, burst, x.v.perModel, t) ELSE NoLimiter

\* The statuses a retryOn entry adds: "<p>xx" gives p*100 .. p*100+99.
RetryStatuses(r) ==
    IF HasSuffix(r, <<"x", "x">>) /\ AtoiOk(CutSuffix(r, <<"x", "x">>))
    THEN LET q == AtoiOrZero(CutSuffix(r, <<"x", "x">>)) IN (q * 100)..(q * 100 + 99)
    ELSE {}

FullName(o) == o.namespace \o <<"/">> \o o.name

\* convertRoute(obj) at time t: the compiled route, or ConvertError.
convertRoute(o, t) ==
    IF ~o.hasSpec THEN ConvertError
    ELSE
    [Name |-> FullName(o),
     Priority |-> getInt32(o.priority, 100),
     Operations |-> IF o.match = Absent THEN {} ELSE o.match.v.operations,
     ModelPatterns |->
        IF o.match = Absent THEN <<>>
        ELSE [i \in 1..Len(o.match.v.models) |-> CompileModelPattern(o.match.v.models[i])],
     HeaderMatchers |->
        IF o.match = Absent THEN <<>>
        ELSE [h \in DOMAIN o.match.v.headers |-> ConvertHeader(o.match.v.headers[h])],
     SourceTables |-> IF o.match = Absent THEN {} ELSE o.match.v.tables,
     TimeWindow |->
        IF o.match = Absent \/ o.match.v.timeWindow = Absent THEN NoTimeWindow
        ELSE parseTimeWindow(o.match.v.timeWindow.v),
     Destinations |-> [i \in 1..Len(o.route) |-> ConvertDestination(o.route[i])],
     Fallback |-> ConvertFallback(o.fallback),
     RateLimiter |-> ConvertRateLimiting(o.rateLimiting, t),
     RetryAttempts |-> IF o.retry = Absent THEN 0 ELSE getInt32(o.retry.v.attempts, 3),
     RetryOnStatuses |->
        IF o.retry = Absent THEN {}
        ELSE UNION {RetryStatuses(o.retry.v.retryOn[i]) : i \in 1..Len(o.retry.v.retryOn)},
     MatchedRequests |-> 0,
     LastMatchTime |-> ZeroTime]

----------------------------------------------------------------------------
(* Endpoint registry and topology watcher (K8sWatcher).  The registry is   *)
(* kept by Proxy.RegisterEndpoint and Proxy.UnregisterEndpoint, keyed by   *)
(* the address http://host:port.                                           *)

DefaultPort == 11433
Termite == <<"t", "e", "r", "m", "i", "t", "e", "-">>

\* fmt.Sprintf("http://%s:%d", host, port)
Address(host, port) == [host |-> host, port |-> port]

\* Register(address, pool, workloadType): creates or updates the record.
RegisterEndpoint(reg, address, pool, workloadType) ==
    [a \in DOMAIN reg \cup {address} |->
        IF a = address
        THEN [pool |-> pool, workloadType |-> workloadType,
              QueueDepth |-> IF address \in DOMAIN reg THEN reg[address].QueueDepth ELSE 0,
              Models |-> IF address \in DOMAIN reg THEN reg[address].Models ELSE {}]
        ELSE reg[a]]

\* Unregister(address): removes the record if there is one.
UnregisterEndpoint(reg, address) == [a \in DOMAIN reg \ {address} |-> reg[a]]

\* WorkloadType(label), general when the label is empty.
WorkloadTypeOf(label) == IF label = "" THEN "general" ELSE label

\* strings.TrimPrefix
TrimPrefix(s, p) == IF HasPrefix(s, p) THEN SubSeq(s, Len(p) + 1, Len(s)) ELSE s

\* The first check of processEndpointSlice: is this a Termite service?
IsTermiteSlice(s) == HasPrefix(s.serviceName, Termite) \/ s.appName = "termite"

\* The pool of an endpoint slice: the antfly.io/pool label, else the service name less termite-.
SlicePool(s) == IF s.pool # <<>> THEN s.pool ELSE TrimPrefix(s.serviceName, Termite)

\* Mutant of SlicePort: the ports of the slice are not looked at.
SlicePortDefaultOnly(s) == DefaultPort

\* The port loop of processEndpointSlice: the first port named http or api
\* decides; its number is taken when it has one.
SlicePort(s) ==
    LET named == {i \in 1..Len(s.ports) : s.ports[i].name \in {Some("http"), Some("api")}} IN
    IF named = {} THEN DefaultPort
    ELSE LET i == CHOOSE k \in named : \A j \in named : k <= j IN
         IF s.ports[i].port = Absent THEN DefaultPort ELSE s.ports[i].port.v

RECURSIVE Flatten(_)
\* The (address, ready) pairs of a slice in the order the loops visit them.
Flatten(endpoints) ==
    IF endpoints = <<>> THEN <<>>
    ELSE [i \in 1..Len(Head(endpoints).addresses) |->
            [host |-> Head(endpoints).addresses[i],
             ready |-> Head(endpoints).ready = Some(TRUE)]]
         \o Flatten(Tail(endpoints))

\* The body of the address loop: register a ready address, unregister another.
ApplyOne(reg, e, port, pool, workloadType) ==
    IF e.ready THEN RegisterEndpoint(reg, Address(e.host, port), pool, workloadType)
    ELSE UnregisterEndpoint(reg, Address(e.host, port))

RECURSIVE ApplyAll(_, _, _, _, _)
ApplyAll(reg, es, port, pool, workloadType) ==
    IF es = <<>> THEN reg
    ELSE ApplyAll(ApplyOne(reg, Head(es), port, pool, workloadType),
                  Tail(es), port, pool, workloadType)

\* processEndpointSlice: the registry after it.
processEndpointSlice(reg, s) ==
    IF ~IsTermiteSlice(s) THEN reg
    ELSE ApplyAll(reg, Flatten(s.endpoints), SlicePort(s), SlicePool(s),
                  WorkloadTypeOf(s.workloadType))

RECURSIVE UnregisterAll(_, _)
UnregisterAll(reg, es) ==
    IF es = <<>> THEN reg
    ELSE UnregisterAll(UnregisterEndpoint(reg, Address(Head(es).host, DefaultPort)), Tail(es))

\* onEndpointSliceDelete: every address of the slice is unregistered at port 11433.
deleteEndpointSlice(reg, s) == UnregisterAll(reg, Flatten(s.endpoints))

RECURSIVE PodPort(_, _)
\* The container loop of processPod: in every container named termite the
\* first port named http or api sets the port.
PodPort(containers, port) ==
    IF containers = <<>> THEN port
    ELSE LET c == Head(containers)
             named == {i \in 1..Len(c.ports) : c.ports[i].name \in {"http", "api"}}
         IN  IF c.name = "termite" /\ named # {}
             THEN PodPort(Tail(containers),
                          c.ports[CHOOSE k \in named : \A j \in named : k <= j].containerPort)
             ELSE PodPort(Tail(containers), port)

\* labelSelector.Matches for the selector app.kubernetes.io/name=termite.
SelectorMatches(pod) == pod.appName = "termite"

\* The condition loop of processPod: some condition is Ready with status True.
PodReady(pod) ==
    \E i \in 1..Len(pod.conditions) :
        pod.conditions[i].type = "Ready" /\ pod.conditions[i].status = "True"

\* processPod: the registry after it.
processPod(reg, pod) ==
    IF ~SelectorMatches(pod) THEN reg
    ELSE IF pod.phase # "Running" \/ pod.podIP = "" THEN reg
    ELSE IF PodReady(pod)
         THEN RegisterEndpoint(reg, Address(pod.podIP, PodPort(pod.containers, DefaultPort)),
                               pod.pool, WorkloadTypeOf(pod.workloadType))
         ELSE UnregisterEndpoint(reg, Address(pod.podIP, PodPort(pod.containers, DefaultPort)))

\* onPodDelete: the pod's address is unregistered at port 11433.
deletePod(reg, pod) ==
    IF pod.podIP # "" THEN UnregisterEndpoint(reg, Address(pod.podIP, DefaultPort)) ELSE reg

----------------------------------------------------------------------------
(* Destination selection of the route engine against the endpoint registry *)

\* GetEndpointsForPool(pool): the endpoints of the pool as they are now.
GetEndpointsForPool(reg, pool) == {a \in DOMAIN reg : reg[a].pool = pool}

\* ObserveDispatch(address, delta): the in-flight counter of the endpoint moves by delta.
ObserveDispatch(reg, address, delta) ==
    IF address \in DOMAIN reg
    THEN [reg EXCEPT ![address].QueueDepth = @ + delta]
    ELSE reg

\* The endpoint reports the models it has loaded.
SetModels(reg, address, models) ==
    IF address \in DOMAIN reg THEN [reg EXCEPT ![address].Models = models] ELSE reg

RECURSIVE TotalQueueDepth(_, _)
\* The loop of evaluateConditions that adds up ep.QueueDepth.
TotalQueueDepth(reg, endpoints) ==
    IF endpoints = {} THEN 0
    ELSE LET a == CHOOSE x \in endpoints : TRUE IN
         reg[a].QueueDepth + TotalQueueDepth(reg, endpoints \ {a})

NoDestination == [none |-> "destination"]

\* Mutant of evaluateConditions: a destination whose pool has no endpoints
\* is judged by its conditions over a depth and a count of zero.
evaluateConditionsEmptyPool(dest, req, reg) ==
    LET endpoints == GetEndpointsForPool(reg, dest.Pool)
        modelLoaded == \E a \in endpoints : req.Model \in reg[a].Models
        avgQueueDepth == [num |-> TotalQueueDepth(reg, endpoints),
                          den |-> IF endpoints = {} THEN 1 ELSE Cardinality(endpoints)]
    IN  /\ dest.QueueDepthCondition # NoCondition =>
              Evaluate(dest.QueueDepthCondition, avgQueueDepth)
        /\ dest.ReplicaCondition # NoCondition =>
              Evaluate(dest.ReplicaCondition, [num |-> Cardinality(endpoints), den |-> 1])
        /\ dest.RequireModelLoaded => modelLoaded
        /\ dest.TimeCondition # NoTimeWindow => IsActive(dest.TimeCondition, req.Timestamp)

\* Mutant of evaluateConditions: the replica condition is left out.
evaluateConditionsNoReplica(dest, req, reg) ==
    LET endpoints == GetEndpointsForPool(reg, dest.Pool) IN
    IF endpoints = {} THEN FALSE
    ELSE
    LET modelLoaded == \E a \in endpoints : req.Model \in reg[a].Models
        avgQueueDepth == [num |-> TotalQueueDepth(reg, endpoints),
                          den |-> Cardinality(endpoints)]
    IN  /\ dest.QueueDepthCondition # NoCondition =>
              Evaluate(dest.QueueDepthCondition, avgQueueDepth)
        /\ dest.RequireModelLoaded => modelLoaded
        /\ dest.TimeCondition # NoTimeWindow => IsActive(dest.TimeCondition, req.Timestamp)

\* Mutant of evaluateConditions: any loaded model counts as the model of the request.
evaluateConditionsAnyModel(dest, req, reg) ==
    LET endpoints == GetEndpointsForPool(reg, dest.Pool) IN
    IF endpoints = {} THEN FALSE
    ELSE
    LET modelLoaded == \E a \in endpoints : reg[a].Models # {}
        avgQueueDepth == [num |-> TotalQueueDepth(reg, endpoints),
                          den |-> Cardinality(endpoints)]
    IN  /\ dest.QueueDepthCondition # NoCondition =>
              Evaluate(dest.QueueDepthCondition, avgQueueDepth)
        /\ dest.ReplicaCondition # NoCondition =>
              Evaluate(dest.ReplicaCondition, [num |-> Cardinality(endpoints), den |-> 1])
        /\ dest.RequireModelLoaded => modelLoaded
        /\ dest.TimeCondition # NoTimeWindow => IsActive(dest.TimeCondition, req.Timestamp)

\* RouteManager.evaluateConditions; LatencyCondition is not looked at.
evaluateConditions(dest, req, reg) ==
    LET endpoints == GetEndpointsForPool(reg, dest.Pool) IN
    IF endpoints = {} THEN FALSE
    ELSE
    LET modelLoaded == \E a \in endpoints : req.Model \in reg[a].Models
        avgQueueDepth == [num |-> TotalQueueDepth(reg, endpoints),
                          den |-> Cardinality(endpoints)]
    IN  /\ dest.QueueDepthCondition # NoCondition =>
              Evaluate(dest.QueueDepthCondition, avgQueueDepth)
        /\ dest.ReplicaCondition # NoCondition =>
              Evaluate(dest.ReplicaCondition, [num |-> Cardinality(endpoints), den |-> 1])
        /\ dest.RequireModelLoaded => modelLoaded
        /\ dest.TimeCondition # NoTimeWindow => IsActive(dest.TimeCondition, req.Timestamp)

\* The first loop of SelectDestination: the eligible destinations in the
\* order of the route.
Eligible(route, req, reg) ==
    SelectSeq(route.Destinations, LAMBDA d : evaluateConditions(d, req, reg))

RECURSIVE PickBestLast(_, _)
\* Mutant of PickBest: a destination of equal weight replaces the best so far.
PickBestLast(eligible, best) ==
    IF eligible = <<>> THEN best
    ELSE IF best = NoDestination \/ Head(eligible).Weight >= best.Weight
         THEN PickBestLast(Tail(eligible), Head(eligible))
         ELSE PickBestLast(Tail(eligible), best)

RECURSIVE PickBest(_, _)
\* The second loop of SelectDestination: the first destination of highest weight.
PickBest(eligible, best) ==
    IF eligible = <<>> THEN best
    ELSE IF best = NoDestination \/ Head(eligible).Weight > best.Weight
         THEN PickBest(Tail(eligible), Head(eligible))
         ELSE PickBest(Tail(eligible), best)

\* RouteManager.SelectDestination: the destination (NoDestination for nil) and the error.
SelectDestination(route, req, reg) ==
    LET eligible == Eligible(route, req, reg) IN
    IF Len(eligible) = 0 THEN [dest |-> NoDestination, err |-> "nil"]
    ELSE IF Len(eligible) = 1 THEN [dest |-> eligible[1], err |-> "nil"]
    ELSE [dest |-> PickBest(eligible, NoDestination), err |-> "nil"]

----------------------------------------------------------------------------
(* Admission of a TermitePool (the validating webhook).  A validator      *)
(* returns the sequence of its error messages, <<>> for nil.               *)

ValidClasses ==
    {"Accelerator", "Balanced", "Performance", "Scale-Out", "autopilot", "autopilot-spot"}

\* Mutant of hasGPUResources: any resource limit counts.
hasAnyLimit(r) == r.Limits # Absent /\ r.Limits.v # {}

\* hasGPUResources; Absent stands for nil Resources or nil Limits.
hasGPUResources(r) ==
    IF r.Limits = Absent THEN FALSE
    ELSE "nvidia.com/gpu" \in r.Limits.v \/ "cloud.google.com/gke-gpu" \in r.Limits.v

validateGKEConfig(r) ==
    IF r.GKE = Absent THEN <<>>
    ELSE LET gke == r.GKE.v IN
         IF gke.AutopilotComputeClass # "" /\ gke.AutopilotComputeClass \notin ValidClasses
         THEN <<"invalid GKE Autopilot compute class">>
         ELSE IF gke.AutopilotComputeClass # "" /\ ~gke.Autopilot
         THEN <<"autopilotComputeClass is set but autopilot=false">>
         ELSE IF gke.AutopilotComputeClass = "Accelerator" /\ ~hasGPUResources(r)
         THEN <<"Accelerator requires GPU resources">>
         ELSE <<>>

validateNoConflictingSettings(r) ==
    IF r.GKE = Absent \/ ~r.GKE.v.Autopilot THEN <<>>
    ELSE IF r.Spot THEN <<"hardware.spot=true conflicts with autopilot=true">>
    ELSE <<>>

validateReplicaCounts(r) ==
    IF r.Replicas.Min < 0 THEN <<"replicas.min must be >= 0">>
    ELSE IF r.Replicas.Max <= 0 THEN <<"replicas.max must be > 0">>
    ELSE IF r.Replicas.Min > r.Replicas.Max THEN <<"replicas.min cannot be greater than replicas.max">>
    ELSE <<>>

validateTermitePool(r) ==
    validateGKEConfig(r) \o validateNoConflictingSettings(r) \o validateReplicaCounts(r)

validateImmutability(r, old) ==
    (IF r.GKE # Absent /\ old.GKE # Absent
     THEN (IF r.GKE.v.Autopilot # old.GKE.v.Autopilot
           THEN <<"autopilot is immutable">> ELSE <<>>)
          \o (IF r.GKE.v.Autopilot
                 /\ r.GKE.v.AutopilotComputeClass # old.GKE.v.AutopilotComputeClass
              THEN <<"autopilotComputeClass is immutable">> ELSE <<>>)
     ELSE <<>>)
    \o (IF (r.GKE # Absent /\ old.GKE = Absent) \/ (r.GKE = Absent /\ old.GKE # Absent)
        THEN IF old.GKE # Absent /\ old.GKE.v.Autopilot
             THEN <<"cannot remove spec.gke when autopilot was enabled">> ELSE <<>>
        ELSE <<>>)

\* ValidateCreate: the errors of the new pool.
ValidateCreateErrors(r) == validateTermitePool(r)

\* ValidateUpdate: the immutability errors if there are any, else the others.
ValidateUpdateErrors(r, old) ==
    IF validateImmutability(r, old) # <<>> THEN validateImmutability(r, old)
    ELSE validateTermitePool(r)

----------------------------------------------------------------------------
(* Inputs of the route store *)

RouteNames == {<<"a">>, <<"a", "b">>, <<"b">>}
Priorities == {100, 200}

EmptyBlock ==
    [Operations |-> {}, ModelPatterns |-> <<>>, HeaderMatchers |-> <<>>,
     SourceTables |-> {}, TimeWindow |-> NoTimeWindow]

MatchBlocks ==
    { [EmptyBlock EXCEPT !.Operations = {"embed"},
                         !.ModelPatterns = <<CompileModelPattern(<<"b", "*">>)>>],
      [EmptyBlock EXCEPT
          !.HeaderMatchers = [h \in {"x-tier"} |->
              [Exact |-> <<"a">>, Prefix |-> <<>>, Regex |-> NoRegex]],
          !.SourceTables = {"t1"},
          !.TimeWindow = [StartHour |-> 22, StartMinute |-> 0,
                          EndHour |-> 6, EndMinute |-> 0, Days |-> {}]] }

StoreRoutes ==
    { MkRoute(n, p, b) : n \in RouteNames, p \in Priorities, b \in MatchBlocks }

NoHeaders == <<>>
Requests ==
    { [Operation |-> "embed", Model |-> <<"b", "a">>,
       Headers |-> [h \in {"x-tier"} |-> <<"a">>], SourceTable |-> "t1",
       Timestamp |-> [weekday |-> 1, hour |-> 23, minute |-> 0]],
      [Operation |-> "embed", Model |-> <<"b">>,
       Headers |-> NoHeaders, SourceTable |-> "t2",
       Timestamp |-> [weekday |-> 1, hour |-> 7, minute |-> 30]],
      [Operation |-> "rerank", Model |-> <<"c">>,
       Headers |-> [h \in {"x-tier"} |-> <<"a">>], SourceTable |-> "t1",
       Timestamp |-> [weekday |-> 1, hour |-> 5, minute |-> 0]],
      [Operation |-> "chunk", Model |-> <<"c">>,
       Headers |-> [h \in {"x-tier"} |-> <<"b">>], SourceTable |-> "t1",
       Timestamp |-> [weekday |-> 1, hour |-> 7, minute |-> 0]] }

----------------------------------------------------------------------------
(* Each specification moves the variables of one component and leaves the  *)
(* others at the values below.                                             *)

StoreIdle ==
    /\ routes = <<>>
    /\ latest = [n \in RouteNames |-> NoRoute]

LimiterIdle ==
    /\ now = 0
    /\ rl = NoLimiter
    /\ admitted = <<>>

WatcherIdle == informer = {}

TopologyIdle ==
    /\ registry = <<>>
    /\ slices = <<>>
    /\ pods = <<>>
    /\ reported = <<>>

PoolIdle ==
    /\ termitePool = Absent
    /\ first = Absent

CallsIdle ==
    /\ calls = <<>>
    /\ returned = <<>>

CacheIdle ==
    /\ cache = <<>>
    /\ sfGroup = <<>>
    /\ stats = <<>>
    /\ reranked = <<>>

notStore == <<limiterVars, informer, topologyVars, poolVars, cacheVars, callVars>>
notLimiter == <<storeVars, informer, topologyVars, poolVars, cacheVars, callVars>>
notWatcher == <<latest, rl, admitted, topologyVars, poolVars, cacheVars, callVars>>
notTopology == <<storeVars, limiterVars, informer, poolVars, cacheVars, callVars>>
notPool == <<storeVars, limiterVars, informer, topologyVars, callVars, cacheVars>>
notCalls == <<latest, limiterVars, informer, topologyVars, poolVars, cacheVars>>

----------------------------------------------------------------------------
(* The route store as a state machine *)

\* NewRouteManager
Init ==
    /\ routes = <<>>
    /\ latest = [n \in RouteNames |-> NoRoute]
    /\ last = [op |-> "NewRouteManager"]
    /\ LimiterIdle
    /\ WatcherIdle
    /\ TopologyIdle
    /\ PoolIdle
    /\ CacheIdle
    /\ CallsIdle

AddRoute(route) ==
    /\ routes' = AddRouteOp(routes, route)
    /\ latest' = [latest EXCEPT ![route.Name] = route]
    /\ last' = [op |-> "AddRoute", route |-> route, before |-> Config(Stored(routes, route.Name))]
    /\ UNCHANGED notStore

RemoveRoute(name) ==
    /\ routes' = RemoveRouteOp(routes, name)
    /\ latest' = [latest EXCEPT ![name] = NoRoute]
    /\ last' = [op |-> "RemoveRoute", name |-> name]
    /\ UNCHANGED notStore

Match(req) ==
    /\ MatchIndex(routes, req) # 0 =>
          routes[MatchIndex(routes, req)].MatchedRequests < MaxMatched
    /\ routes' = MatchOp(routes, req)
    /\ last' = [op |-> "Match", req |-> req,
                result |-> IF MatchIndex(routes, req) = 0 THEN NoRoute
                           ELSE Config(routes[MatchIndex(routes, req)])]
    /\ UNCHANGED <<latest, notStore>>

Next ==
    \/ \E route \in StoreRoutes : AddRoute(route)
    \/ \E name \in RouteNames : RemoveRoute(name)
    \/ \E req \in Requests : Match(req)

Spec == Init /\ [][Next]_vars

----------------------------------------------------------------------------
(* Claims about the route store *)

Accepting(rs, req) == {i \in 1..Len(rs) : matchRoute(rs[i], req)}

\* r is at least as good a choice as o: higher priority, or the same
\* priority and a name that is not greater.
Precedes(r, o) ==
    \/ r.Priority > o.Priority
    \/ r.Priority = o.Priority /\ ~StrLess(o.Name, r.Name)

\* C1: in every reachable store and for every request, Match returns the
\* accepting route of highest priority, ties broken by ascending name, and
\* returns no route exactly when no stored route accepts the request.
C1_MatchReturnsBest ==
    /\ \A req \in Requests :
          LET i == MatchIndex(routes, req) IN
          /\ (i = 0) <=> (Accepting(routes, req) = {})
          /\ i # 0 => /\ i \in Accepting(routes, req)
                      /\ \A j \in Accepting(routes, req) : Precedes(routes[i], routes[j])
    /\ (last.op = "Match" /\ last.result # NoRoute) =>
          /\ Config(Stored(routes, last.result.Name)) = last.result
          /\ \A j \in 1..Len(routes) :
                matchRoute(routes[j], last.req) => Precedes(last.result, routes[j])

\* C1 witness: Match has just chosen among three accepting routes, two of
\* them of equal priority and one of another priority.
C1_Witness ==
    /\ last.op = "Match"
    /\ last.result # NoRoute
    /\ Cardinality(Accepting(routes, last.req)) = 3
    /\ \E i, j \in Accepting(routes, last.req) :
          i # j /\ routes[i].Priority = routes[j].Priority
    /\ \E i, j \in Accepting(routes, last.req) :
          routes[i].Priority # routes[j].Priority
    /\ routes[1].Name # <<"a">>

\* C2: the stored list is ordered by priority descending and, among equal
\* priorities, by name ascending.
C2_StoreSorted ==
    \A i, j \in 1..Len(routes) :
        i < j => \/ routes[i].Priority > routes[j].Priority
                 \/ /\ routes[i].Priority = routes[j].Priority
                    /\ StrLess(routes[i].Name, routes[j].Name)

\* C2 witness: after an AddRoute the store holds three routes, two of one
\* priority, and the added route is not the last of the list.
C2_Witness ==
    /\ last.op = "AddRoute"
    /\ Len(routes) = 3
    /\ \E i, j \in 1..3 : i # j /\ routes[i].Priority = routes[j].Priority
    /\ \E i, j \in 1..3 : routes[i].Priority # routes[j].Priority
    /\ routes[3].Name # last.route.Name

\* C9: the store holds at most one route per name, and the entry of a name
\* is the route of the latest AddRoute for it (none after a RemoveRoute).
C9_UpsertReplaces ==
    \A n \in RouteNames :
        LET entries == {i \in 1..Len(routes) : routes[i].Name = n} IN
        /\ Cardinality(entries) <= 1
        /\ latest[n] = NoRoute => entries = {}
        /\ latest[n] # NoRoute =>
              \E i \in entries : Config(routes[i]) = latest[n]

\* C9 witness: AddRoute has just replaced an entry of the same name that had
\* another priority and another match block, while other routes are stored.
C9_Witness ==
    /\ last.op = "AddRoute"
    /\ last.before # NoRoute
    /\ last.before.Priority # last.route.Priority
    /\ last.before.Operations # last.route.Operations
    /\ Len(routes) >= 2

\* C10: AddRoute(r) followed by AddRoute(r) leaves the store as a single
\* AddRoute(r) does, for every reachable store and every route r.
C10_UpsertIdempotent ==
    /\ \A r \in StoreRoutes :
          AddRouteOp(AddRouteOp(routes, r), r) = AddRouteOp(routes, r)
    /\ (last.op = "AddRoute" /\ last.before = last.route) =>
          \A r \in {last.route} : AddRouteOp(routes, r) = routes

\* C10 witness: AddRoute(r) has just run on a store that already held r as
\* AddRoute(r) left it, next to other routes.
C10_Witness ==
    /\ last.op = "AddRoute"
    /\ last.before = last.route
    /\ Len(routes) >= 2

----------------------------------------------------------------------------
(* A rate limiter under Allow calls as time advances *)

\* Configurations the Route admission accepts (requestsPerSecond > 0, burstSize >= 0).
RatesPerSecond == {1, 2}
BurstSizes == {0, 1, 2}
LimiterModels == {"m1", "m2"}
Ticks == 0..MaxTime

LimiterInit ==
    /\ StoreIdle
    /\ WatcherIdle
    /\ TopologyIdle
    /\ PoolIdle
    /\ CacheIdle
    /\ CallsIdle
    /\ now = 0
    /\ rl \in {NewRateLimiter(rps, burst, pm, 0) :
                  rps \in RatesPerSecond, burst \in BurstSizes, pm \in BOOLEAN}
    /\ admitted = [t \in Ticks |-> [m \in LimiterModels |-> 0]]
    /\ last = [op |-> "NewRateLimiter"]

\* One call of rl.Allow(model); the mutex makes the call atomic and orders
\* the clock readings of concurrent calls.
Allow(model) ==
    LET res == AllowOp(rl, model, now) IN
    /\ rl' = res.limiter
    /\ admitted' = IF res.ok THEN [admitted EXCEPT ![now][model] = @ + 1]
                   ELSE admitted
    /\ last' = [op |-> "Allow", model |-> model, ok |-> res.ok]
    /\ UNCHANGED <<now, notLimiter>>

Tick ==
    /\ now < MaxTime
    /\ now' = now + 1
    /\ UNCHANGED <<rl, admitted, last, notLimiter>>

LimiterNext ==
    \/ \E model \in LimiterModels : Allow(model)
    \/ Tick

SpecLimiter == LimiterInit /\ [][LimiterNext]_vars

RECURSIVE SumOver(_, _)
\* The sum of f over the finite set S.
SumOver(f, S) ==
    IF S = {} THEN 0
    ELSE LET x == CHOOSE y \in S : TRUE IN f[x] + SumOver(f, S \ {x})

\* Calls admitted for the models in M at the ticks t1..t2.
AdmittedIn(M, t1, t2) ==
    SumOver([t \in t1..t2 |-> SumOver([m \in M |-> admitted[t][m]], M)], t1..t2)

\* rate * W + burst for the window of the ticks t1..t2, in 1/TicksPerSecond of a token.
WindowBound(t1, t2) == rl.rate * (t2 - t1) + rl.burstSize * OneToken

\* C3 as claimed: in every window the calls a rate limiter admits (for all
\* models together) never exceed rate * W + burst.
C3_LimiterWindowBound ==
    \A t1, t2 \in Ticks :
        t1 <= t2 => AdmittedIn(LimiterModels, t1, t2) * OneToken <= WindowBound(t1, t2)

\* The buckets of the limiter: one for all models, or one per model.
Buckets == IF rl.perModel THEN {{m} : m \in LimiterModels} ELSE {LimiterModels}

\* C3 as amended: in every window the calls admitted from one bucket (the
\* limiter's single bucket, or the bucket of one model in per-model mode)
\* never exceed rate * W + burst.
C3_BucketWindowBound ==
    \A M \in Buckets : \A t1, t2 \in Ticks :
        t1 <= t2 => AdmittedIn(M, t1, t2) * OneToken <= WindowBound(t1, t2)

\* C3 witness: a bucket has admitted exactly rate * W + burst calls in a
\* window of more than one tick, more than its burst, and the last call was refused.
C3_Witness ==
    /\ last.op = "Allow" /\ ~last.ok
    /\ \E M \in Buckets : \E t1, t2 \in Ticks :
          /\ t1 < t2
          /\ AdmittedIn(M, t1, t2) * OneToken = WindowBound(t1, t2)
          /\ AdmittedIn(M, t1, t2) > rl.burstSize
          /\ rl.burstSize > 0

\* Every bucket of the limiter holds between no token and burstSize tokens.
TokensWithinBurst ==
    /\ 0 <= rl.tokens /\ rl.tokens <= rl.burstSize * OneToken
    /\ \A m \in DOMAIN rl.modelLimits :
          0 <= rl.modelLimits[m].tokens /\ rl.modelLimits[m].tokens <= rl.burstSize * OneToken

\* The models whose calls draw on the bucket of model m.
SharingBucket(m) == IF rl.perModel THEN {m} ELSE LimiterModels

\* The first tick of the window of less than one second that ends now.
WithinTheSecond == IF now >= TicksPerSecond THEN now - (TicksPerSecond - 1) ELSE 0

\* A step of Allow sets the tokens of its bucket to min(burst, tokens +
\* elapsed * rate), admits and takes one token if there is one, and
\* otherwise refuses and leaves the refilled count; with rate 1 and burst 1
\* a call on a full bucket is admitted and a call less than a second after
\* an admitted one is refused.
AllowAsSpecified ==
    (last'.op = "Allow" /\ now' = now) =>
        LET m == last'.model
            b == BucketOf(rl, m, now)
            sum == b.tokens + (now - b.lastUpdate) * rl.rate
            refilled == IF sum > rl.burstSize * OneToken THEN rl.burstSize * OneToken ELSE sum
            after == BucketOf(rl', m, now)
        IN  /\ last'.ok = (refilled >= OneToken)
            /\ after.tokens = IF refilled >= OneToken THEN refilled - OneToken ELSE refilled
            /\ after.lastUpdate = now
            /\ (rl.rate = 1 /\ rl.burstSize = 1) =>
                  /\ b.tokens = OneToken => last'.ok
                  /\ AdmittedIn(SharingBucket(m), WithinTheSecond, now) >= 1 => ~last'.ok

\* C20: a bucket starts with burst tokens; every Allow refills its bucket
\* to min(burst, tokens + elapsedSeconds * rate), then admits the call and
\* removes one token if one is there and otherwise refuses it and leaves
\* the refilled count; the tokens of every bucket stay between 0 and burst;
\* with requestsPerSecond 1 and burstSize 1, of the calls arriving within
\* less than a second the first is admitted and the following are refused.
C20_TokenBucket ==
    /\ rl.tokens = rl.burstSize * OneToken
    /\ []TokensWithinBurst
    /\ [][AllowAsSpecified]_vars

\* C20 witness: rate 1 and burst 1; a call was admitted at tick 0, and less
\* than a second later a call has been refused, leaving in the bucket the
\* fraction of a token refilled since.
C20_Witness ==
    /\ rl.rate = 1 /\ rl.burstSize = 1 /\ ~rl.perModel
    /\ now >= 1 /\ now < TicksPerSecond
    /\ AdmittedIn(LimiterModels, 0, 0) = 1
    /\ AdmittedIn(LimiterModels, 1, now) = 0
    /\ last.op = "Allow" /\ ~last.ok
    /\ rl.lastUpdate = now
    /\ rl.tokens = now * rl.rate

\* A step of Allow in per-model mode leaves the bucket of every other model
\* and the limiter's own bucket as they were.
AllowTouchesOneBucket ==
    (last'.op = "Allow" /\ now' = now /\ rl.perModel) =>
        /\ rl'.tokens = rl.tokens
        /\ rl'.lastUpdate = rl.lastUpdate
        /\ \A m \in LimiterModels \ {last'.model} :
              /\ m \in DOMAIN rl'.modelLimits <=> m \in DOMAIN rl.modelLimits
              /\ m \in DOMAIN rl.modelLimits => rl'.modelLimits[m] = rl.modelLimits[m]

\* In per-model mode with a burst of one or more, a model none of whose
\* calls was admitted in the last second is admitted, whatever the other
\* models have drawn.
OwnBucketDecides ==
    (last.op = "Allow" /\ rl.perModel /\ rl.burstSize >= 1 /\ rl.modelLimits[last.model].lastUpdate = now
        /\ AdmittedIn({last.model}, 0, now) = IF last.ok THEN 1 ELSE 0)
    => last.ok

\* C21: in per-model mode an Allow call for a model changes the bucket of
\* that model only, the buckets of the other models and the global bucket
\* stay as they are, and a model whose own bucket is untouched is admitted
\* even when the bucket of another model is exhausted.
C21_PerModelBucketsIndependent ==
    /\ [][AllowTouchesOneBucket]_vars
    /\ []OwnBucketDecides

\* C21 witness: per-model mode; the bucket of m1 has just been exhausted
\* (less than a token left at this instant) and the first call for m2 has
\* been admitted at the same instant.
C21_Witness ==
    /\ rl.perModel /\ rl.burstSize >= 1
    /\ "m1" \in DOMAIN rl.modelLimits
    /\ rl.modelLimits["m1"].tokens < OneToken
    /\ rl.modelLimits["m1"].lastUpdate = now
    /\ AdmittedIn({"m1"}, now, now) >= 1
    /\ last = [op |-> "Allow", model |-> "m2", ok |-> TRUE]
    /\ AdmittedIn({"m2"}, 0, now) = 1

----------------------------------------------------------------------------
(* The route watcher: TermiteRoute events of the informer update the route *)
(* store, while the dispatcher consults the limiters of the stored routes. *)

BaseObject(name) ==
    [namespace |-> <<"n">>, name |-> name, hasSpec |-> TRUE, priority |-> Absent,
     match |-> Absent,
     route |-> <<[pool |-> "A", weight |-> Absent, condition |-> Absent]>>,
     fallback |-> Absent, rateLimiting |-> Absent, retry |-> Absent]

BaseMatch ==
    [operations |-> {}, models |-> <<>>, headers |-> <<>>, tables |-> {},
     namespaces |-> {}, serviceAccounts |-> {}, timeWindow |-> Absent]

HeaderRegex(src) ==
    Some([BaseMatch EXCEPT !.headers =
            [h \in {"x-tier"} |-> [exact |-> <<>>, prefix |-> <<>>, regex |-> Some(src)]]])

BaseCondition ==
    [queueDepth |-> Absent, availableReplicas |-> Absent, latency |-> Absent,
     modelLoaded |-> FALSE, timeOfDay |-> Absent]

Limit(rps, burst, perModel) ==
    Some([requestsPerSecond |-> Some(rps), burstSize |-> burst, perModel |-> perModel])

WatchedObjects ==
    { [BaseObject(<<"a">>) EXCEPT
          !.priority = Some(200),
          !.match = Some([BaseMatch EXCEPT !.models = << <<"b", "*">> >>]),
          !.rateLimiting = Limit(1, Absent, FALSE)],
      [BaseObject(<<"a">>) EXCEPT
          !.fallback = Some([action |-> "reject", errorResponse |-> Absent,
                             redirectPool |-> ""]),
          !.retry = Some([attempts |-> Absent, retryOn |-> << <<"r", "e", "s", "e", "t">> >>]),
          !.rateLimiting = Limit(1, Some(1), FALSE)],
      [BaseObject(<<"a">>) EXCEPT
          !.match = Some([BaseMatch EXCEPT !.namespaces = {"prod"}]),
          !.rateLimiting = Limit(1, Some(1), TRUE)],
      [BaseObject(<<"b">>) EXCEPT !.match = HeaderRegex(<<"(">>)],
      [BaseObject(<<"b">>) EXCEPT
          !.match = HeaderRegex(<<"a", ".", "*">>),
          !.route = <<[pool |-> "A", weight |-> Some(80),
                       condition |-> Some([BaseCondition EXCEPT
                           !.queueDepth = Some(<<"<", "1", "0">>),
                           !.latency = Some(<<"1", "0", "0", "m", "s">>)])],
                      [pool |-> "B", weight |-> Some(20), condition |-> Absent]>>],
      [BaseObject(<<"b">>) EXCEPT
          !.match = Some([BaseMatch EXCEPT !.tables = {"t1"}, !.serviceAccounts = {"sa"}]),
          !.route = <<[pool |-> "A", weight |-> Absent,
                       condition |-> Some([BaseCondition EXCEPT
                           !.queueDepth = Some(<<">", "a", "b">>)])]>>],
      [BaseObject(<<"b">>) EXCEPT !.hasSpec = FALSE] }

WatchedNames == {FullName(o) : o \in WatchedObjects}

WatcherInit ==
    /\ routes = <<>>
    /\ latest = [n \in RouteNames |-> NoRoute]
    /\ informer = {}
    /\ now = 0
    /\ rl = NoLimiter
    /\ admitted = <<>>
    /\ TopologyIdle
    /\ PoolIdle
    /\ CacheIdle
    /\ CallsIdle
    /\ last = [op |-> "NewRouteWatcher"]

\* Mutant of UpsertOp: the converted route is appended to the store as it is.
UpsertAppending(rs, o, t) ==
    IF convertRoute(o, t) = ConvertError THEN rs ELSE Append(rs, convertRoute(o, t))

\* The store after onRouteAdd or onRouteUpdate of o at time t: convert, and
\* AddRoute unless the conversion failed.
UpsertOp(rs, o, t) ==
    IF convertRoute(o, t) = ConvertError THEN rs ELSE AddRouteOp(rs, convertRoute(o, t))

\* The body shared by onRouteAdd and onRouteUpdate.
Upsert(op, o) ==
    /\ routes' = UpsertOp(routes, o, now)
    /\ last' = [op |-> op, obj |-> o, before |-> Stored(routes, FullName(o)),
                changed |-> routes' # routes]

onRouteAdd(o) ==
    /\ FullName(o) \notin informer
    /\ informer' = informer \cup {FullName(o)}
    /\ Upsert("onRouteAdd", o)
    /\ UNCHANGED <<now, notWatcher>>

onRouteUpdate(o) ==
    /\ FullName(o) \in informer
    /\ Upsert("onRouteUpdate", o)
    /\ UNCHANGED <<now, informer, notWatcher>>

\* onRouteDelete; the informer may hand over a tombstone instead of the object.
onRouteDelete(name, tombstone) ==
    /\ name \in informer
    /\ informer' = informer \ {name}
    /\ routes' = IF tombstone THEN routes ELSE RemoveRouteOp(routes, name)
    /\ last' = [op |-> "onRouteDelete", name |-> name]
    /\ UNCHANGED <<now, notWatcher>>

\* The dispatcher asks the limiter of a stored route.
RouteAllow(i, model) ==
    /\ routes[i].RateLimiter # NoLimiter
    /\ routes' = [routes EXCEPT ![i].RateLimiter = AllowOp(@, model, now).limiter]
    /\ last' = [op |-> "Allow", name |-> routes[i].Name, model |-> model,
                ok |-> AllowOp(routes[i].RateLimiter, model, now).ok]
    /\ UNCHANGED <<now, informer, notWatcher>>

WatcherNext ==
    \/ \E o \in WatchedObjects : onRouteAdd(o)
    \/ \E o \in WatchedObjects : onRouteUpdate(o)
    \/ \E name \in WatchedNames, tombstone \in BOOLEAN : onRouteDelete(name, tombstone)
    \/ \E i \in 1..Len(routes) : RouteAllow(i, "m1")
    \/ Tick

SpecWatcher == WatcherInit /\ [][WatcherNext]_vars

\* The token-bucket state of a limiter: tokens and last-refill time of its
\* bucket and of its per-model buckets.
BucketState(l) ==
    [tokens |-> l.tokens, lastUpdate |-> l.lastUpdate, modelLimits |-> l.modelLimits]

\* C4: an update of a stored route that leaves requestsPerSecond and
\* burstSize unchanged leaves the token-bucket state of the route (tokens
\* and last-refill time, per-model buckets included) as it was.
C4_UpdateKeepsBucket ==
    ( /\ last.op = "onRouteUpdate"
      /\ last.before # NoRoute
      /\ last.before.RateLimiter # NoLimiter
      /\ Stored(routes, FullName(last.obj)).RateLimiter # NoLimiter
      /\ Stored(routes, FullName(last.obj)).RateLimiter.rate = last.before.RateLimiter.rate
      /\ Stored(routes, FullName(last.obj)).RateLimiter.burstSize
            = last.before.RateLimiter.burstSize )
    => BucketState(Stored(routes, FullName(last.obj)).RateLimiter)
          = BucketState(last.before.RateLimiter)

\* A threshold string is well formed when, behind its operator and before
\* its unit, it is a decimal number.
WellFormedThreshold(x) ==
    x = Absent \/
    LET s == x.v
        v1 == IF HasPrefix(s, <<">", "=">>) \/ HasPrefix(s, <<"<", "=">>)
                 \/ HasPrefix(s, <<"=", "=">>) THEN SubSeq(s, 3, Len(s))
              ELSE IF HasPrefix(s, <<">">>) \/ HasPrefix(s, <<"<">>) THEN Tail(s)
              ELSE s
        v2 == IF HasSuffix(v1, <<"m", "s">>) THEN CutSuffix(v1, <<"m", "s">>)
              ELSE IF HasSuffix(v1, <<"s">>) THEN CutSuffix(v1, <<"s">>)
              ELSE v1
        v3 == IF v2 # <<>> /\ Head(v2) = "-" THEN Tail(v2) ELSE v2
    IN  /\ \E i \in 1..Len(v3) : IsDigit(v3[i])
        /\ \A i \in 1..Len(v3) : IsDigit(v3[i]) \/ v3[i] = "."
        /\ Cardinality({i \in 1..Len(v3) : v3[i] = "."}) <= 1

\* Some part of the object does not compile or parse: a header regex, or a
\* threshold of a destination condition.
CompilationFails(o) ==
    /\ o.hasSpec
    /\ \/ /\ o.match # Absent
          /\ \E h \in DOMAIN o.match.v.headers :
                /\ o.match.v.headers[h].regex # Absent
                /\ ~RegexSyntaxOk(o.match.v.headers[h].regex.v)
       \/ \E i \in 1..Len(o.route) :
             /\ o.route[i].condition # Absent
             /\ \/ ~WellFormedThreshold(o.route[i].condition.v.queueDepth)
                \/ ~WellFormedThreshold(o.route[i].condition.v.availableReplicas)
                \/ ~WellFormedThreshold(o.route[i].condition.v.latency)

\* C8: a Route of which some part fails to compile at ingest is not
\* inserted by the add or update handler; the store is left unchanged.
C8_FailedCompileKeepsStore ==
    (last.op \in {"onRouteAdd", "onRouteUpdate"} /\ CompilationFails(last.obj))
        => ~last.changed

----------------------------------------------------------------------------
(* The topology watcher as a state machine: the informers deliver add,     *)
(* update and delete events of EndpointSlices and Pods, one at a time.     *)

ServiceA == Termite \o <<"a">>

Slice(name, service, app, pool, ports, endpoints) ==
    [name |-> name, serviceName |-> service, appName |-> app, pool |-> pool,
     workloadType |-> "", ports |-> ports, endpoints |-> endpoints]

HttpPorts == <<[name |-> Some("http"), port |-> Some(8080)]>>

Ready(hosts) == [addresses |-> hosts, ready |-> Some(TRUE)]

\* The objects the endpoint-slice informer delivers: the slices of the
\* service termite-a, and one slice of a service that is not Termite's.
WatchedSlices ==
    {Slice("s1", ServiceA, "", <<>>, HttpPorts, <<Ready(<<"h1", "h2">>)>>),
     Slice("s1", ServiceA, "", <<>>, HttpPorts, <<Ready(<<"h1">>)>>),
     Slice("s1", ServiceA, "", <<>>, HttpPorts,
           <<[addresses |-> <<"h1">>, ready |-> Some(FALSE)], Ready(<<"h2">>)>>),
     Slice("s1", ServiceA, "", <<>>, <<>>, <<Ready(<<"h1">>)>>),
     Slice("s1", ServiceA, "", <<"b">>,
           <<[name |-> Some("metrics"), port |-> Some(9090)],
             [name |-> Some("api"), port |-> Absent]>>,
           <<[addresses |-> <<"h1">>, ready |-> Absent]>>),
     Slice("s2", <<"d", "b">>, "db", <<>>, <<>>, <<Ready(<<"h3">>)>>)}

Pod(name, app, phase, ip, conditions, containers) ==
    [name |-> name, appName |-> app, pool |-> <<"a">>, workloadType |-> "",
     phase |-> phase, podIP |-> ip, conditions |-> conditions,
     containers |-> containers]

Conditions(ready) ==
    <<[type |-> "Initialized", status |-> "True"], [type |-> "Ready", status |-> ready]>>

TermiteContainers ==
    <<[name |-> "termite", ports |-> <<[name |-> "http", containerPort |-> 8080]>>]>>

\* The objects the pod informer delivers.
WatchedPods ==
    {Pod("p1", "termite", "Running", "h1", Conditions("True"), TermiteContainers),
     Pod("p1", "termite", "Running", "h1", Conditions("False"), TermiteContainers),
     Pod("p1", "termite", "Failed", "h1", Conditions("False"), TermiteContainers),
     Pod("p1", "termite", "Running", "h1", Conditions("True"),
         <<[name |-> "sidecar", ports |-> <<[name |-> "http", containerPort |-> 9090]>>],
           [name |-> "termite", ports |-> <<>>]>>),
     Pod("p1", "termite", "Pending", "", <<>>, TermiteContainers),
     [Pod("p1", "termite", "Running", "h1", Conditions("True"), TermiteContainers)
         EXCEPT !.pool = <<>>],
     Pod("p2", "other", "Running", "h3", Conditions("True"), <<>>)}

\* The ready condition each host of a Termite slice is reported with.
SliceReports(s) ==
    IF IsTermiteSlice(s)
    THEN {<<e.host, e.ready>> : e \in {Flatten(s.endpoints)[i] : i \in 1..Len(Flatten(s.endpoints))}}
    ELSE {}

\* The ready condition a selected pod's address is reported with.
PodReports(pod) ==
    IF SelectorMatches(pod) /\ pod.podIP # "" THEN {<<pod.podIP, PodReady(pod)>>} ELSE {}

Report(rep, reports) ==
    [h \in DOMAIN rep \cup {r[1] : r \in reports} |->
        IF \E r \in reports : r[1] = h
        THEN (CHOOSE r \in reports : r[1] = h)[2]
        ELSE rep[h]]

Forget(rep, reports) == [h \in DOMAIN rep \ {r[1] : r \in reports} |-> rep[h]]

Store(held, o) == [n \in DOMAIN held \cup {o.name} |-> IF n = o.name THEN o ELSE held[n]]

Drop(held, name) == [n \in DOMAIN held \ {name} |-> held[n]]

TopologyInit ==
    /\ StoreIdle
    /\ LimiterIdle
    /\ WatcherIdle
    /\ TopologyIdle
    /\ PoolIdle
    /\ CacheIdle
    /\ CallsIdle
    /\ last = [op |-> "NewK8sWatcher"]

onEndpointSliceAdd ==
    \E s \in WatchedSlices :
        /\ s.name \notin DOMAIN slices
        /\ registry' = processEndpointSlice(registry, s)
        /\ slices' = Store(slices, s)
        /\ reported' = Report(reported, SliceReports(s))
        /\ last' = [op |-> "onEndpointSliceAdd", obj |-> s]
        /\ UNCHANGED <<pods, notTopology>>

onEndpointSliceUpdate ==
    \E s \in WatchedSlices :
        /\ s.name \in DOMAIN slices
        /\ registry' = processEndpointSlice(registry, s)
        /\ slices' = Store(slices, s)
        /\ reported' = Report(reported, SliceReports(s))
        /\ last' = [op |-> "onEndpointSliceUpdate", obj |-> s]
        /\ UNCHANGED <<pods, notTopology>>

onEndpointSliceDelete ==
    \E name \in DOMAIN slices :
        /\ registry' = deleteEndpointSlice(registry, slices[name])
        /\ slices' = Drop(slices, name)
        /\ reported' = Forget(reported, SliceReports(slices[name]))
        /\ last' = [op |-> "onEndpointSliceDelete", obj |-> slices[name]]
        /\ UNCHANGED <<pods, notTopology>>

onPodAdd ==
    \E pod \in WatchedPods :
        /\ pod.name \notin DOMAIN pods
        /\ registry' = processPod(registry, pod)
        /\ pods' = Store(pods, pod)
        /\ reported' = Report(reported, PodReports(pod))
        /\ last' = [op |-> "onPodAdd", obj |-> pod]
        /\ UNCHANGED <<slices, notTopology>>

onPodUpdate ==
    \E pod \in WatchedPods :
        /\ pod.name \in DOMAIN pods
        /\ registry' = processPod(registry, pod)
        /\ pods' = Store(pods, pod)
        /\ reported' = Report(reported, PodReports(pod))
        /\ last' = [op |-> "onPodUpdate", obj |-> pod]
        /\ UNCHANGED <<slices, notTopology>>

onPodDelete ==
    \E name \in DOMAIN pods :
        /\ registry' = deletePod(registry, pods[name])
        /\ pods' = Drop(pods, name)
        /\ reported' = Forget(reported, PodReports(pods[name]))
        /\ last' = [op |-> "onPodDelete", obj |-> pods[name]]
        /\ UNCHANGED <<slices, notTopology>>

TopologyNext ==
    \/ onEndpointSliceAdd
    \/ onEndpointSliceUpdate
    \/ onEndpointSliceDelete
    \/ onPodAdd
    \/ onPodUpdate
    \/ onPodDelete

SpecTopology == TopologyInit /\ [][TopologyNext]_vars

\* The hosts the topology holds as ready: a ready address of a cached
\* Termite slice, or the address of a cached pod that is selected, running
\* and ready.
ReadyHosts ==
    {r[1] : r \in {q \in UNION {SliceReports(slices[n]) : n \in DOMAIN slices} : q[2]}}
    \cup {pods[n].podIP : n \in {m \in DOMAIN pods :
            /\ SelectorMatches(pods[m])
            /\ pods[m].phase = "Running"
            /\ pods[m].podIP # ""
            /\ PodReady(pods[m])}}

\* C5: no address whose latest reported ready condition is false is
\* registered in the endpoint registry.
C5_NoUnreadyRegistered ==
    \A a \in DOMAIN registry :
        a.host \in DOMAIN reported => reported[a.host]

\* C6: an address that has disappeared from the topology (its slice or pod
\* was deleted, or an updated slice dropped it) or that is no longer ready is
\* not in the registry, whatever port it was registered under.
C6_GoneIsUnregistered ==
    \A a \in DOMAIN registry : a.host \in ReadyHosts

----------------------------------------------------------------------------
(* The admission of one TermitePool as a state machine: the API server     *)
(* calls the webhook on every create, update and delete, and stores the    *)
(* object when the webhook returns nil.                                    *)

GKEConfigs ==
    {Absent}
    \cup {Some([Autopilot |-> a, AutopilotComputeClass |-> c]) :
            a \in BOOLEAN, c \in {"", "Balanced", "Accelerator", "bogus"}}

PoolSpecs ==
    {[GKE |-> g, Spot |-> s, Limits |-> l, Replicas |-> r] :
        g \in GKEConfigs, s \in BOOLEAN,
        l \in {Absent, Some({"nvidia.com/gpu"})},
        r \in {[Min |-> 0, Max |-> 1], [Min |-> 2, Max |-> 1], [Min |-> 0 - 1, Max |-> 0]}}
    \cup {[GKE |-> Some([Autopilot |-> TRUE, AutopilotComputeClass |-> "Accelerator"]),
           Spot |-> FALSE, Limits |-> Some({"google.com/tpu"}),
           Replicas |-> [Min |-> 0, Max |-> 1]]}

PoolInit ==
    /\ StoreIdle
    /\ LimiterIdle
    /\ WatcherIdle
    /\ TopologyIdle
    /\ PoolIdle
    /\ CacheIdle
    /\ CallsIdle
    /\ last = [op |-> "Webhook"]

ValidateCreate ==
    \E r \in PoolSpecs :
        /\ termitePool = Absent
        /\ termitePool' = IF ValidateCreateErrors(r) = <<>> THEN Some(r) ELSE termitePool
        /\ first' = IF ValidateCreateErrors(r) = <<>> THEN Some(r) ELSE first
        /\ last' = [op |-> "ValidateCreate", spec |-> r, err |-> ValidateCreateErrors(r)]
        /\ UNCHANGED notPool

ValidateUpdate ==
    \E r \in PoolSpecs :
        /\ termitePool # Absent
        /\ termitePool' = IF ValidateUpdateErrors(r, termitePool.v) = <<>> THEN Some(r) ELSE termitePool
        /\ last' = [op |-> "ValidateUpdate", spec |-> r,
                    err |-> ValidateUpdateErrors(r, termitePool.v)]
        /\ UNCHANGED <<first, notPool>>

ValidateDelete ==
    /\ termitePool # Absent
    /\ termitePool' = Absent
    /\ first' = Absent
    /\ last' = [op |-> "ValidateDelete", err |-> <<>>]
    /\ UNCHANGED notPool

PoolNext ==
    \/ ValidateCreate
    \/ ValidateUpdate
    \/ ValidateDelete

SpecPool == PoolInit /\ [][PoolNext]_vars

\* The autopilot flag and the compute class of a pool spec: the fields of
\* spec.gke, false and "" when there is no spec.gke.
AutopilotOf(r) == IF r.GKE = Absent THEN FALSE ELSE r.GKE.v.Autopilot
ComputeClassOf(r) == IF r.GKE = Absent THEN "" ELSE r.GKE.v.AutopilotComputeClass

\* C7: while the pool is not deleted, its autopilot flag and its compute
\* class are the ones it was first admitted with.
C7_AutopilotImmutable ==
    termitePool # Absent =>
        /\ AutopilotOf(termitePool.v) = AutopilotOf(first.v)
        /\ ComputeClassOf(termitePool.v) = ComputeClassOf(first.v)

\* The rules a pool spec has to obey, each with the words the webhook
\* names it by.
PoolRules(r) ==
    [rule \in {"replicas.min must be >= 0", "replicas.max must be > 0",
               "replicas.min cannot be greater than replicas.max",
               "invalid GKE Autopilot compute class",
               "autopilotComputeClass is set but autopilot=false",
               "Accelerator requires GPU resources",
               "hardware.spot=true conflicts with autopilot=true"} |->
        CASE rule = "replicas.min must be >= 0" -> r.Replicas.Min >= 0
          [] rule = "replicas.max must be > 0" -> r.Replicas.Max > 0
          [] rule = "replicas.min cannot be greater than replicas.max" ->
                r.Replicas.Min <= r.Replicas.Max
          [] rule = "invalid GKE Autopilot compute class" ->
                ComputeClassOf(r) # "" => ComputeClassOf(r) \in ValidClasses
          [] rule = "autopilotComputeClass is set but autopilot=false" ->
                ComputeClassOf(r) # "" => AutopilotOf(r)
          [] rule = "Accelerator requires GPU resources" ->
                ComputeClassOf(r) = "Accelerator" =>
                    /\ r.Limits # Absent
                    /\ r.Limits.v \cap {"nvidia.com/gpu", "cloud.google.com/gke-gpu"} # {}
          [] rule = "hardware.spot=true conflicts with autopilot=true" ->
                ~(r.Spot /\ AutopilotOf(r))]

\* The rules a spec violates.
Violated(r) == {rule \in DOMAIN PoolRules(r) : ~PoolRules(r)[rule]}

\* C28: the pool admitted by ValidateCreate or ValidateUpdate obeys every
\* rule of a pool: replicas min >= 0, max > 0, min <= max; a compute class
\* is of the enum and has autopilot set; Accelerator has a GPU limit; spot
\* and autopilot are not both set.  A spec that breaks a rule is rejected.
C28_AdmittedPoolsValid ==
    /\ termitePool # Absent => Violated(termitePool.v) = {}
    /\ (last.op \in {"ValidateCreate", "ValidateUpdate"} /\ Violated(last.spec) # {})
       => last.err # <<>>

\* C28 witness: an update to the compute class Accelerator with a GPU limit
\* and autopilot has been admitted.
C28_Witness ==
    /\ last.op = "ValidateUpdate"
    /\ last.err = <<>>
    /\ termitePool = Some(last.spec)
    /\ ComputeClassOf(last.spec) = "Accelerator"
    /\ last.spec.Limits = Some({"nvidia.com/gpu"})
    /\ first # termitePool

\* C29: a spec that breaks one or more rules is rejected, on create and on
\* update, with a message that is not empty and names every rule broken.
C29_EveryViolationNamed ==
    (last.op \in {"ValidateCreate", "ValidateUpdate"} /\ Violated(last.spec) # {})
    => /\ last.err # <<>>
       /\ Violated(last.spec) \subseteq {last.err[i] : i \in 1..Len(last.err)}

----------------------------------------------------------------------------
(* Concurrent Match calls.  Match holds rm.mu.RLock from its first line    *)
(* to its return, so several calls run at once; AddRoute and RemoveRoute   *)
(* hold rm.mu.Lock and run only while no Match call is inside.             *)

Dispatchers == {"d1", "d2"}
MaxCalls == 2

NoRequest == [none |-> "request"]
IdleCall == [pc |-> "idle", req |-> NoRequest, idx |-> 0, loaded |-> 0]

\* Routes and requests of the concurrent store: the routes of two names
\* with the operation and model clauses, and the requests for embed and rerank.
ConcurrentRoutes ==
    {r \in StoreRoutes : r.Name \in {<<"a">>, <<"b">>} /\ r.Operations # {}}
ConcurrentRequests == {r \in Requests : r.Operation \in {"embed", "rerank"}}

\* The Match calls that have added to the counter of routes[i] and not returned yet.
InFlight(i) == {d \in Dispatchers : calls[d].pc \in {"added", "stamped"} /\ calls[d].idx = i}

\* The values an unsynchronised write of a timestamp can leave when another
\* write of b runs at the same time: one of the two, or words of both.
RacyWrites(a, b) ==
    {a, b, [a EXCEPT !.minute = b.minute], [b EXCEPT !.minute = a.minute]}

ConcurrentInit ==
    /\ routes = <<>>
    /\ calls = [d \in Dispatchers |-> IdleCall]
    /\ returned = [n \in RouteNames |-> 0]
    /\ latest = [n \in RouteNames |-> NoRoute]
    /\ last = [op |-> "NewRouteManager"]
    /\ LimiterIdle
    /\ WatcherIdle
    /\ TopologyIdle
    /\ PoolIdle
    /\ CacheIdle

\* AddRoute under rm.mu.Lock.
LockedAddRoute(route) ==
    /\ \A d \in Dispatchers : calls[d].pc = "idle"
    /\ routes' = AddRouteOp(routes, route)
    /\ returned' = [returned EXCEPT ![route.Name] = 0]
    /\ last' = [op |-> "AddRoute", route |-> route]
    /\ UNCHANGED <<calls, notCalls>>

\* RemoveRoute under rm.mu.Lock.
LockedRemoveRoute(name) ==
    /\ \A d \in Dispatchers : calls[d].pc = "idle"
    /\ routes' = RemoveRouteOp(routes, name)
    /\ returned' = [returned EXCEPT ![name] = 0]
    /\ last' = [op |-> "RemoveRoute", name |-> name]
    /\ UNCHANGED <<calls, notCalls>>

\* Match, RLock and the loop: the first stored route that accepts the request.
MatchFind(d, req) ==
    /\ calls[d].pc = "idle"
    /\ MatchIndex(routes, req) # 0 =>
          returned[routes[MatchIndex(routes, req)].Name]
             + Cardinality({e \in Dispatchers : calls[e].idx = MatchIndex(routes, req)})
             < MaxCalls
    /\ calls' = [calls EXCEPT ![d] =
          [pc |-> "found", req |-> req, idx |-> MatchIndex(routes, req),
           loaded |-> IF MatchIndex(routes, req) = 0 THEN 0
                      ELSE routes[MatchIndex(routes, req)].MatchedRequests]]
    /\ UNCHANGED <<routes, returned, last, notCalls>>

\* Match, atomic.AddInt64(&route.MatchedRequests, 1).
MatchAdd(d) ==
    /\ calls[d].pc = "found"
    /\ calls[d].idx # 0
    /\ routes' = [routes EXCEPT ![calls[d].idx].MatchedRequests =
                      AtomicAddInt64(@, calls[d].loaded)]
    /\ calls' = [calls EXCEPT ![d].pc = "added"]
    /\ UNCHANGED <<returned, last, notCalls>>

\* Match, route.LastMatchTime = req.Timestamp: a plain write under the read
\* lock, which races with the same write of another call on the route.
MatchStamp(d) ==
    /\ calls[d].pc = "added"
    /\ \E t \in {calls[d].req.Timestamp}
              \cup UNION {RacyWrites(calls[d].req.Timestamp, calls[e].req.Timestamp) :
                            e \in {x \in Dispatchers \ {d} :
                                      calls[x].pc = "added" /\ calls[x].idx = calls[d].idx}} :
          routes' = [routes EXCEPT ![calls[d].idx].LastMatchTime = t]
    /\ calls' = [calls EXCEPT ![d].pc = "stamped"]
    /\ UNCHANGED <<returned, last, notCalls>>

\* Match, the return (of the route, or of nil when no route accepted) and RUnlock.
MatchReturn(d) ==
    /\ \/ calls[d].pc = "stamped"
       \/ calls[d].pc = "found" /\ calls[d].idx = 0
    /\ calls' = [calls EXCEPT ![d] = IdleCall]
    /\ returned' = IF calls[d].idx = 0 THEN returned
                   ELSE [returned EXCEPT ![routes[calls[d].idx].Name] = @ + 1]
    /\ last' = [op |-> "Match", req |-> calls[d].req,
                result |-> IF calls[d].idx = 0 THEN NoRoute
                           ELSE Config(routes[calls[d].idx])]
    /\ UNCHANGED <<routes, notCalls>>

ConcurrentNext ==
    \/ \E route \in ConcurrentRoutes : LockedAddRoute(route)
    \/ \E name \in {<<"a">>, <<"b">>} : LockedRemoveRoute(name)
    \/ \E d \in Dispatchers, req \in ConcurrentRequests : MatchFind(d, req)
    \/ \E d \in Dispatchers : MatchAdd(d)
    \/ \E d \in Dispatchers : MatchStamp(d)
    \/ \E d \in Dispatchers : MatchReturn(d)

SpecConcurrent == ConcurrentInit /\ [][ConcurrentNext]_vars

\* C14: under every interleaving of Match calls, the counter of each stored
\* route is the number of Match calls that have returned the route since it
\* was added, plus the calls that have added to it and not returned yet: no
\* increment is lost and none goes to another route; the route a call
\* returns is the first stored route that accepts its request.
C14_CounterCountsMatches ==
    /\ \A i \in 1..Len(routes) :
          routes[i].MatchedRequests
             = returned[routes[i].Name] + Cardinality(InFlight(i))
    /\ \A d \in Dispatchers :
          calls[d].pc # "idle" => calls[d].idx = MatchIndex(routes, calls[d].req)

\* C14 witness: two routes of priority 200 and 100 accept the request of two
\* Match calls that ran at the same time; both have added to the counter of
\* the first route, which is 2, and the counter of the other route is 0.
C14_Witness ==
    /\ Len(routes) = 2
    /\ routes[1].Priority = 200
    /\ routes[2].Priority = 100
    /\ \A d \in Dispatchers :
          /\ calls[d].pc = "added"
          /\ calls[d].idx = 1
          /\ matchRoute(routes[2], calls[d].req)
    /\ routes[1].MatchedRequests = 2
    /\ routes[2].MatchedRequests = 0

\* The Match calls that stand at the plain write of routes[i].LastMatchTime.
AtStamp(i) == {d \in Dispatchers : calls[d].pc = "added" /\ calls[d].idx = i}

\* C38: Match calls, which hold the read lock only, never write a field of
\* a route at the same time without synchronisation: no two calls stand at
\* the write of LastMatchTime of one route together, and LastMatchTime is
\* never a mix of the timestamps of two requests.
C38_NoUnsynchronisedWrite ==
    /\ \A i \in 1..Len(routes) : Cardinality(AtStamp(i)) <= 1
    /\ \A i \in 1..Len(routes) :
          routes[i].LastMatchTime \in {ZeroTime} \cup {r.Timestamp : r \in ConcurrentRequests}

----------------------------------------------------------------------------
(* The two event streams of the topology watcher on one address *)

\* The hosts a held slice reports ready.
SliceReadyHosts(s) ==
    IF IsTermiteSlice(s) THEN {r[1] : r \in {x \in SliceReports(s) : x[2]}} ELSE {}

\* The held pod is one that processPod registers.
PodRegisters(pod) ==
    SelectorMatches(pod) /\ pod.phase = "Running" /\ pod.podIP # "" /\ PodReady(pod)

\* C39: when an endpoint slice and a pod the informers hold both report a
\* host ready, the two handlers derive the same address and the same pool
\* for it, so that the pool the address is registered under is that pool
\* whichever event came last.
C39_StreamsAgree ==
    \A sn \in DOMAIN slices, pn \in DOMAIN pods :
       (PodRegisters(pods[pn]) /\ pods[pn].podIP \in SliceReadyHosts(slices[sn]))
       => /\ Address(pods[pn].podIP, SlicePort(slices[sn]))
               = Address(pods[pn].podIP, PodPort(pods[pn].containers, DefaultPort))
          /\ SlicePool(slices[sn]) = pods[pn].pool
          /\ \A a \in DOMAIN registry :
                a = Address(pods[pn].podIP, SlicePort(slices[sn]))
                => registry[a].pool = SlicePool(slices[sn])

----------------------------------------------------------------------------
(* Destination selection as a state machine: the registry changes under    *)
(* the topology watcher and the dispatchers, and SelectDestination is      *)
(* called on a matched route.                                              *)

MaxQueueDepth == 15
DepthStep == 15

\* The endpoints that come and go, with the pool of each.
SelectEndpoints ==
    [a \in {Address("h1", DefaultPort), Address("h2", DefaultPort),
            Address("h3", DefaultPort)} |->
        IF a.host = "h3" THEN "B" ELSE "A"]

Conditioned(pool, weight, condition) ==
    ConvertDestination([pool |-> pool, weight |-> weight, condition |-> Some(condition)])

\* The destinations of the routes, each compiled as convertRoute compiles it.
PlainB == ConvertDestination([pool |-> "B", weight |-> Some(20), condition |-> Absent])
PlainA == ConvertDestination([pool |-> "A", weight |-> Some(20), condition |-> Absent])
QueueDepthA ==
    Conditioned("A", Some(80), [BaseCondition EXCEPT !.queueDepth = Some(<<"<", "1", "0">>)])
ReplicasA ==
    Conditioned("A", Absent, [BaseCondition EXCEPT !.availableReplicas = Some(<<">", "=", "2">>)])
ModelLoadedA == Conditioned("A", Some(20), [BaseCondition EXCEPT !.modelLoaded = TRUE])
LatencyA ==
    Conditioned("A", Some(80), [BaseCondition EXCEPT
                                   !.latency = Some(<<"<", "1", "0", "0", "m", "s">>)])
OfficeHoursB ==
    Conditioned("B", Some(80), [BaseCondition EXCEPT
                                   !.timeOfDay = Some([start |-> Some(<<"0", "9", ":", "0", "0">>),
                                                       end |-> Some(<<"1", "7", ":", "0", "0">>),
                                                       days |-> {}])])

SelectDestinations ==
    {PlainB, PlainA, QueueDepthA, ReplicasA, ModelLoadedA, LatencyA, OfficeHoursB}

\* The matched routes: one destination, or two different ones in either order.
SelectRoutes ==
    {[MkRoute(<<"a">>, 100, EmptyBlock) EXCEPT !.Destinations = ds] :
        ds \in {<<d>> : d \in SelectDestinations}
               \cup {<<p[1], p[2]>> :
                        p \in {q \in SelectDestinations \X SelectDestinations : q[1] # q[2]}}}

SelectRequests ==
    {[Operation |-> "embed", Model |-> model, Headers |-> NoHeaders, SourceTable |-> "t1",
      Timestamp |-> [weekday |-> 1, hour |-> 12, minute |-> 0]] :
        model \in {<<"b">>, <<"c">>}}

SelectInit ==
    /\ StoreIdle
    /\ LimiterIdle
    /\ WatcherIdle
    /\ slices = <<>>
    /\ pods = <<>>
    /\ reported = <<>>
    /\ registry = <<>>
    /\ PoolIdle
    /\ CacheIdle
    /\ CallsIdle
    /\ last = [op |-> "NewModelRegistry"]

notRegistry == <<storeVars, limiterVars, informer, slices, pods, reported, poolVars, cacheVars, callVars>>

\* The topology watcher registers an endpoint.
Register(address) ==
    /\ registry' = RegisterEndpoint(registry, address, SelectEndpoints[address], "general")
    /\ last' = [op |-> "Register"]
    /\ UNCHANGED notRegistry

\* The topology watcher unregisters an endpoint.
Unregister(address) ==
    /\ address \in DOMAIN registry
    /\ registry' = UnregisterEndpoint(registry, address)
    /\ last' = [op |-> "Unregister"]
    /\ UNCHANGED notRegistry

\* A dispatcher reports requests entering or leaving an endpoint.
Observe(address, delta) ==
    /\ address \in DOMAIN registry
    /\ registry[address].QueueDepth + delta \in 0..MaxQueueDepth
    /\ registry' = ObserveDispatch(registry, address, delta)
    /\ last' = [op |-> "ObserveDispatch"]
    /\ UNCHANGED notRegistry

\* An endpoint reports its loaded models.
Models(address, models) ==
    /\ address \in DOMAIN registry
    /\ registry[address].Models # models
    /\ registry' = SetModels(registry, address, models)
    /\ last' = [op |-> "SetModels"]
    /\ UNCHANGED notRegistry

\* SelectDestination(route, req, registry) on the registry as it is.
Select(route, req) ==
    /\ last' = [op |-> "SelectDestination", route |-> route, req |-> req,
                result |-> SelectDestination(route, req, registry)]
    /\ UNCHANGED <<registry, notRegistry>>

SelectNext ==
    \/ \E a \in DOMAIN SelectEndpoints : Register(a)
    \/ \E a \in DOMAIN SelectEndpoints : Unregister(a)
    \/ \E a \in DOMAIN SelectEndpoints, delta \in {DepthStep, 0 - DepthStep} : Observe(a, delta)
    \/ \E a \in DOMAIN SelectEndpoints, models \in {{}, {<<"b">>}} : Models(a, models)
    \/ \E route \in SelectRoutes, req \in SelectRequests : Select(route, req)

SpecSelect == SelectInit /\ [][SelectNext]_vars

\* The endpoints of a pool in the registry, and the aggregates of the pool.
PoolEndpoints(p) == {a \in DOMAIN registry : registry[a].pool = p}
AverageDepth(p) ==
    [num |-> TotalQueueDepth(registry, PoolEndpoints(p)), den |-> Cardinality(PoolEndpoints(p))]
ReplicaCount(p) == [num |-> Cardinality(PoolEndpoints(p)), den |-> 1]

\* SelectDestination has just returned a destination.
Selected == last.op = "SelectDestination" /\ last.result.dest # NoDestination

\* C15: the destination SelectDestination returns has its queue-depth
\* condition satisfied by the average queue depth of its pool and its
\* replica condition by the number of endpoints of the pool; with A
\* conditioned on queueDepth < 10 at an average of 10 or more and B
\* unconditioned with endpoints, B is returned.
C15_ThresholdsHold ==
    /\ Selected =>
          /\ last.result.dest.QueueDepthCondition # NoCondition =>
                /\ PoolEndpoints(last.result.dest.Pool) # {}
                /\ Evaluate(last.result.dest.QueueDepthCondition,
                            AverageDepth(last.result.dest.Pool))
          /\ last.result.dest.ReplicaCondition # NoCondition =>
                Evaluate(last.result.dest.ReplicaCondition,
                         ReplicaCount(last.result.dest.Pool))
    /\ ( /\ last.op = "SelectDestination"
         /\ last.route.Destinations = <<QueueDepthA, PlainB>>
         /\ PoolEndpoints("A") # {}
         /\ AverageDepth("A").num >= 10 * AverageDepth("A").den
         /\ PoolEndpoints("B") # {} )
       => last.result.dest = PlainB

\* C15 witness: A, conditioned on queueDepth < 10, has an average depth of
\* 15 and B, unconditioned, has an endpoint; B has been returned.  In
\* another call the replica condition >= 2 held with two endpoints.
C15_Witness ==
    /\ last.op = "SelectDestination"
    /\ last.route.Destinations = <<QueueDepthA, PlainB>>
    /\ Cardinality(PoolEndpoints("A")) = 2
    /\ AverageDepth("A").num = 15 * AverageDepth("A").den
    /\ PoolEndpoints("B") # {}
    /\ last.result.dest = PlainB

\* C16: a destination that requires the model loaded is returned only if
\* some endpoint of its pool reports the model of the request; when it is
\* the only destination of the route and no endpoint reports the model,
\* SelectDestination returns no destination.
C16_ModelLoadedRequired ==
    /\ (Selected /\ last.result.dest.RequireModelLoaded) =>
          \E a \in PoolEndpoints(last.result.dest.Pool) :
              last.req.Model \in registry[a].Models
    /\ ( /\ last.op = "SelectDestination"
         /\ last.route.Destinations = <<ModelLoadedA>>
         /\ \A a \in PoolEndpoints("A") : last.req.Model \notin registry[a].Models )
       => last.result.dest = NoDestination

\* C16 witness: pool A has endpoints with a model loaded, none of them the
\* model of the request, and the route whose only destination requires the
\* model got no destination.
C16_Witness ==
    /\ last.op = "SelectDestination"
    /\ last.route.Destinations = <<ModelLoadedA>>
    /\ PoolEndpoints("A") # {}
    /\ \E a \in PoolEndpoints("A") : registry[a].Models # {}
    /\ \A a \in PoolEndpoints("A") : last.req.Model \notin registry[a].Models
    /\ last.result.dest = NoDestination

\* The threshold that holds exactly when c does not.
Complement(c) ==
    [c EXCEPT !.Operator = CASE c.Operator = "<" -> ">="
                             [] c.Operator = ">=" -> "<"
                             [] c.Operator = ">" -> "<="
                             [] c.Operator = "<=" -> ">"
                             [] OTHER -> "none"]

\* C17: the latency threshold of a destination is one of the conditions
\* that must hold.  Whatever the latency of the pool is, it misses either
\* the threshold or its complement, so a destination and the same
\* destination with the complemented latency threshold are never both eligible.
C17_LatencyRestricts ==
    \A d \in SelectDestinations : \A req \in SelectRequests :
        d.LatencyCondition # NoCondition =>
            ~ ( /\ evaluateConditions(d, req, registry)
                /\ evaluateConditions([d EXCEPT !.LatencyCondition = Complement(@)],
                                      req, registry) )

C19_EmptyPoolNeverSelected ==
    /\ Selected => PoolEndpoints(last.result.dest.Pool) # {}
    /\ last.op = "SelectDestination" =>
          /\ last.result.err = "nil"
          /\ (\A i \in 1..Len(last.route.Destinations) :
                  ~evaluateConditions(last.route.Destinations[i], last.req, registry))
             => last.result.dest = NoDestination
          /\ (\A i \in 1..Len(last.route.Destinations) :
                  PoolEndpoints(last.route.Destinations[i].Pool) = {})
             => last.result.dest = NoDestination

\* C19 witness: the registry holds endpoints of pool A only, and the route
\* to the unconditioned destination B got no destination and no error.
C19_Witness ==
    /\ last.op = "SelectDestination"
    /\ last.route.Destinations = <<PlainB>>
    /\ PoolEndpoints("A") # {}
    /\ PoolEndpoints("B") = {}
    /\ last.result = [dest |-> NoDestination, err |-> "nil"]

----------------------------------------------------------------------------
(* Source selectors of a Route object (SpecWatcher) *)

\* The callers a request may come from.
Callers ==
    {[table |-> t, namespace |-> n, serviceAccount |-> a] :
        t \in {"t1", "t2"}, n \in {"prod", "dev"}, a \in {"sa", "other"}}

\* The RouteRequest of a caller: of the caller it carries the table only.
RequestFrom(c) ==
    [Operation |-> "embed", Model |-> <<"b">>, Headers |-> NoHeaders,
     SourceTable |-> c.table, Timestamp |-> [weekday |-> 1, hour |-> 12, minute |-> 0]]

\* The source selector of a match block includes the caller: each list
\* that is given contains the caller's table, namespace, service account.
CallerIncluded(m, c) ==
    /\ m.tables # {} => c.table \in m.tables
    /\ m.namespaces # {} => c.namespace \in m.namespaces
    /\ m.serviceAccounts # {} => c.serviceAccount \in m.serviceAccounts

\* C13: the route compiled from a Route object matches a request only if
\* the source selector of the object includes the caller.
C13_SourceSelectorRestricts ==
    ( /\ last.op \in {"onRouteAdd", "onRouteUpdate"}
      /\ last.obj.hasSpec
      /\ last.obj.match # Absent )
    => \A c \in Callers :
          matchRoute(Stored(routes, FullName(last.obj)), RequestFrom(c))
             => CallerIncluded(last.obj.match.v, c)

----------------------------------------------------------------------------
(* Claims about matchRoute, checked on the routes of the store (Spec) *)

\* Requests of every shape: each clause of a match block is met by some and
\* missed by others, alone and together with other clauses.
ProbeRequests ==
    {[Operation |-> op, Model |-> model, Headers |-> hs, SourceTable |-> src,
      Timestamp |-> [weekday |-> 1, hour |-> hm[1], minute |-> hm[2]]] :
        op \in {"embed", "rerank"},
        model \in {<<"b", "a">>, <<"c">>},
        hs \in {NoHeaders, [h \in {"x-tier"} |-> <<"a">>], [h \in {"x-tier"} |-> <<"b">>]},
        src \in {"t1", "t2"},
        hm \in {<<23, 0>>, <<5, 59>>, <<6, 0>>, <<21, 59>>}}

\* The minutes of the day a time window covers, from its start up to but
\* not including its end, over midnight when the end is before the start.
CoveredMinutes(tw) ==
    LET start == tw.StartHour * 60 + tw.StartMinute
        end == tw.EndHour * 60 + tw.EndMinute
    IN  IF start <= end THEN start..(end - 1)
        ELSE (start..1439) \cup (0..(end - 1))

\* The clauses a route's match block populates.
PopulatedClauses(r) ==
    (IF r.Operations # {} THEN {<<"operations", "">>} ELSE {})
    \cup (IF r.ModelPatterns # <<>> THEN {<<"models", "">>} ELSE {})
    \cup {<<"header", h>> : h \in DOMAIN r.HeaderMatchers}
    \cup (IF r.SourceTables # {} THEN {<<"source", "">>} ELSE {})
    \cup (IF r.TimeWindow # NoTimeWindow THEN {<<"timeWindow", "">>} ELSE {})

\* Clause c of route r is satisfied by the request.
Satisfied(c, r, req) ==
    CASE c[1] = "operations" -> req.Operation \in r.Operations
      [] c[1] = "models" ->
            {i \in 1..Len(r.ModelPatterns) : MatchString(r.ModelPatterns[i], req.Model)} # {}
      [] c[1] = "source" -> req.SourceTable \in r.SourceTables
      [] c[1] = "timeWindow" ->
            /\ r.TimeWindow.Days = {} \/ req.Timestamp.weekday \in r.TimeWindow.Days
            /\ (req.Timestamp.hour * 60 + req.Timestamp.minute) \in CoveredMinutes(r.TimeWindow)
      [] OTHER ->
            /\ c[2] \in DOMAIN req.Headers
            /\ StringMatcherMatches(r.HeaderMatchers[c[2]], req.Headers[c[2]])

\* C12: a stored route matches a request exactly when the request
\* satisfies every populated clause of the route's match block.
C12_MatchIsConjunction ==
    \A i \in 1..Len(routes) : \A req \in ProbeRequests \cup Requests :
        matchRoute(routes[i], req)
            <=> \A c \in PopulatedClauses(routes[i]) : Satisfied(c, routes[i], req)

\* C12 witness: Match has returned a route with header, source and time
\* clauses past a stored route that the request does not match, and the
\* store holds a route that a request misses by its missing header alone.
C12_Witness ==
    /\ last.op = "Match"
    /\ last.result # NoRoute
    /\ last.result.TimeWindow # NoTimeWindow
    /\ DOMAIN last.result.HeaderMatchers # {}
    /\ \E j \in 1..Len(routes) : ~matchRoute(routes[j], last.req)
    /\ \E j \in 1..Len(routes) : \E req \in ProbeRequests :
          {c \in PopulatedClauses(routes[j]) : ~Satisfied(c, routes[j], req)}
             = {<<"header", "x-tier">>}

----------------------------------------------------------------------------
(* Both watchers side by side.  They share no state, so a behaviour runs  *)
(* the events of one watcher while the other one is idle.                  *)

RouteWatcherQuiet ==
    /\ routes = <<>>
    /\ informer = {}
    /\ now = 0

ResyncInit == WatcherInit

ResyncNext ==
    \/ TopologyIdle /\ WatcherNext
    \/ RouteWatcherQuiet /\ TopologyNext

SpecResync == ResyncInit /\ [][ResyncNext]_vars

\* A limiter as a call of Allow at time t finds it: every bucket refilled to t.
AsOf(l, t) ==
    IF l = NoLimiter THEN l
    ELSE [l EXCEPT
            !.tokens = Refill(l.tokens, t - l.lastUpdate, l.rate, l.burstSize),
            !.lastUpdate = t,
            !.modelLimits = [m \in DOMAIN l.modelLimits |->
                [tokens |-> Refill(l.modelLimits[m].tokens, t - l.modelLimits[m].lastUpdate,
                                   l.rate, l.burstSize),
                 lastUpdate |-> t]]]

StoreAsOf(rs, t) == [i \in 1..Len(rs) |-> [rs[i] EXCEPT !.RateLimiter = AsOf(@, t)]]

----------------------------------------------------------------------------
(* Admission of a TermiteRoute: the destination list *)

RECURSIVE DestinationLoop(_, _, _)
\* The loop of validateRouteDestinations from entry i on; poolNames holds
\* the pools of the entries without a condition seen so far.
DestinationLoop(route, i, poolNames) ==
    IF i > Len(route) THEN "nil"
    ELSE IF route[i].pool = "" THEN "pool is required"
    ELSE IF route[i].condition = Absent /\ route[i].pool \in poolNames
         THEN "duplicate pool in route destinations without conditions"
    ELSE IF route[i].weight < 0 \/ route[i].weight > 100
         THEN "weight must be between 0 and 100"
    ELSE DestinationLoop(route, i + 1,
                         IF route[i].condition = Absent THEN poolNames \cup {route[i].pool}
                         ELSE poolNames)

\* TermiteRoute.validateRouteDestinations: the error, "nil" when there is none.
validateRouteDestinations(route) ==
    IF Len(route) = 0 THEN "spec.route must have at least one destination"
    ELSE DestinationLoop(route, 1, {})

----------------------------------------------------------------------------
(* Admission of a TermiteRoute: match, fallback, rate limiting, retry *)

\* timeRegex.MatchString(s) for ^([01]?[0-9]|2[0-3]):([0-5][0-9])$
TimeRegexMatches(s) ==
    \/ /\ Len(s) = 4
       /\ IsDigit(s[1]) /\ s[2] = ":"
       /\ Digit(s[3]) \in 0..5 /\ IsDigit(s[4])
    \/ /\ Len(s) = 5
       /\ \/ s[1] \in {"0", "1"} /\ IsDigit(s[2])
          \/ s[1] = "2" /\ Digit(s[2]) \in 0..3
       /\ s[3] = ":"
       /\ Digit(s[4]) \in 0..5 /\ IsDigit(s[5])

\* Mutant of validateTimeWindow: the end time is not looked at.
validateTimeWindowStartOnly(tw) ==
    IF tw.Start # <<>> /\ ~TimeRegexMatches(tw.Start) THEN "start time is not in HH:MM format"
    ELSE IF \E day \in tw.Days : day < 0 \/ day > 6 THEN "invalid day"
    ELSE "nil"

\* validateTimeWindow
validateTimeWindow(tw) ==
    IF tw.Start # <<>> /\ ~TimeRegexMatches(tw.Start) THEN "start time is not in HH:MM format"
    ELSE IF tw.End # <<>> /\ ~TimeRegexMatches(tw.End) THEN "end time is not in HH:MM format"
    ELSE IF \E day \in tw.Days : day < 0 \/ day > 6 THEN "invalid day"
    ELSE "nil"

\* The body of the loop of validateMatch over the header matchers.
HeaderError(h) ==
    IF h.name = "" THEN "header name cannot be empty"
    ELSE IF h.Exact = <<>> /\ h.Prefix = <<>> /\ h.Regex = <<>>
         THEN "header matcher must specify at least one of: exact, prefix, or regex"
    ELSE IF h.Regex # <<>> /\ RegexpCompile(h.Regex) = CompileError
         THEN "invalid regex for header"
    ELSE "nil"

\* TermiteRoute.validateMatch: the errors the call can return ({"nil"} when
\* there is none). Headers is a Go map, so with several failing matchers
\* the one reported depends on the iteration order.
validateMatch(match) ==
    IF \E i \in 1..Len(match.Operations) : match.Operations[i] \notin {"embed", "chunk", "rerank"}
    THEN {"invalid operation"}
    ELSE IF \E i \in 1..Len(match.Models) : ~ValidModelPattern(match.Models[i])
    THEN {"invalid model pattern"}
    ELSE IF match.TimeWindow # Absent /\ validateTimeWindow(match.TimeWindow.v) # "nil"
    THEN {validateTimeWindow(match.TimeWindow.v)}
    ELSE IF \E h \in match.Headers : HeaderError(h) # "nil"
    THEN {HeaderError(h) : h \in match.Headers} \ {"nil"}
    ELSE {"nil"}

\* TermiteRoute.validateFallback
validateFallback(fb) ==
    IF fb = Absent THEN "nil"
    ELSE IF fb.v.Action \notin {"queue", "reject", "redirect"} THEN "invalid fallback action"
    ELSE IF fb.v.Action = "redirect" /\ fb.v.RedirectPool = ""
         THEN "spec.fallback.redirectPool is required when action is 'redirect'"
    ELSE "nil"

\* TermiteRoute.validateRateLimiting
validateRateLimiting(rl0) ==
    IF rl0 = Absent THEN "nil"
    ELSE IF rl0.v.RequestsPerSecond <= 0 THEN "spec.rateLimiting.requestsPerSecond must be > 0"
    ELSE IF rl0.v.BurstSize # Absent /\ rl0.v.BurstSize.v < 0
         THEN "spec.rateLimiting.burstSize must be >= 0"
    ELSE "nil"

\* validRetryOn of validateRetry
ValidRetryOn ==
    {"5xx", "reset", "connect-failure", "retriable-4xx", "refused-stream",
     "cancelled", "deadline-exceeded", "resource-exhausted"}

\* TermiteRoute.validateRetry
validateRetry(retry) ==
    IF retry = Absent THEN "nil"
    ELSE IF retry.v.Attempts < 0 THEN "spec.retry.attempts must be >= 0"
    ELSE IF \E i \in 1..Len(retry.v.RetryOn) : retry.v.RetryOn[i] \notin ValidRetryOn
         THEN "invalid retry condition"
    ELSE "nil"

\* TermiteRoute.validateTermiteRoute: the error lists the call can return,
\* the empty list standing for nil.
validateTermiteRoute(r) ==
    {SelectSeq(<<validateRouteDestinations(r.Route), m, validateFallback(r.Fallback),
                 validateRateLimiting(r.RateLimiting), validateRetry(r.Retry)>>,
               LAMBDA e : e # "nil") : m \in validateMatch(r.Match)}

----------------------------------------------------------------------------
(* The inference service: POST /api/embed *)

Malformed == [malformed |-> TRUE]

\* Mutant of EmbedStatuses: the model of the request is validated before
\* the node is asked whether it has embedding models.
EmbedStatusesModelFirst(node, body) ==
    IF body = Malformed THEN {400}
    ELSE IF body.model = "" THEN {400}
    ELSE IF node.embedderRegistry = Absent THEN {503}
    ELSE {200}

\* The statuses POST /api/embed can answer with: 503 when the node has no
\* embedding models, 400 on a body that is not JSON (either of the two
\* when both are the case), 400 on a request that names no model, 200
\* otherwise.
EmbedStatuses(node, body) ==
    IF node.embedderRegistry = Absent
    THEN IF body = Malformed THEN {503, 400} ELSE {503}
    ELSE IF body = Malformed THEN {400}
    ELSE IF body.model = "" THEN {400}
    ELSE {200}

----------------------------------------------------------------------------
(* The codec of embedding vectors.  A float32 is the number its 32 bits    *)
(* spell; a byte is a number in 0..255.                                    *)

\* What DeserializeFloatArrays returns: the data and a nil error, or an error.
DecodeError == [err |-> TRUE, data |-> <<>>]
Decoded(data) == [err |-> FALSE, data |-> data]

RECURSIVE LittleEndian(_, _)
\* binary.Write(w, binary.LittleEndian, n) for a value of width bytes.
LittleEndian(n, width) ==
    IF width = 0 THEN <<>> ELSE <<n % 256>> \o LittleEndian(n \div 256, width - 1)

RECURSIVE FromLittleEndian(_)
\* The value binary.Read takes from the bytes.
FromLittleEndian(bytes) ==
    IF bytes = <<>> THEN 0 ELSE Head(bytes) + 256 * FromLittleEndian(Tail(bytes))

RECURSIVE WriteValues(_)
\* The inner loop of SerializeFloatArrays.
WriteValues(innerArray) ==
    IF innerArray = <<>> THEN <<>>
    ELSE LittleEndian(Head(innerArray), 4) \o WriteValues(Tail(innerArray))

RECURSIVE WriteArrays(_, _)
\* The outer loop of SerializeFloatArrays from index i on: the length of
\* the first inner array is written, then the values of every one.
WriteArrays(data, i) ==
    IF i > Len(data) THEN <<>>
    ELSE (IF i = 1 THEN LittleEndian(Len(data[i]), 8) ELSE <<>>)
         \o WriteValues(data[i]) \o WriteArrays(data, i + 1)

\* SerializeFloatArrays: the bytes written.
SerializeFloatArrays(data) == LittleEndian(Len(data), 8) \o WriteArrays(data, 1)

RECURSIVE ReadVectors(_, _, _)
\* The loops of DeserializeFloatArrays: numVectors vectors of dimension
\* values each, an error when the bytes run out.
ReadVectors(bytes, numVectors, dimension) ==
    IF numVectors = 0 THEN Decoded(<<>>)
    ELSE IF Len(bytes) < 4 * dimension THEN DecodeError
    ELSE LET rest == ReadVectors(SubSeq(bytes, 4 * dimension + 1, Len(bytes)),
                                 numVectors - 1, dimension)
         IN  IF rest = DecodeError THEN DecodeError
             ELSE Decoded(<<[j \in 1..dimension |->
                                FromLittleEndian(SubSeq(bytes, 4 * j - 3, 4 * j))]>>
                          \o rest.data)

\* DeserializeFloatArrays: the data read, or an error.
DeserializeFloatArrays(bytes) ==
    IF Len(bytes) < 8 THEN DecodeError
    ELSE IF FromLittleEndian(SubSeq(bytes, 1, 8)) = 0 THEN Decoded(<<>>)
    ELSE IF Len(bytes) < 16 THEN DecodeError
    ELSE ReadVectors(SubSeq(bytes, 17, Len(bytes)),
                     FromLittleEndian(SubSeq(bytes, 1, 8)),
                     FromLittleEndian(SubSeq(bytes, 9, 16)))

----------------------------------------------------------------------------
(* The parsers and matchers of the route engine applied to inputs *)

MaxLen == 3

\* The strings over the alphabet A of length 1..n.
StringsOver(A, n) == UNION {[1..k -> A] : k \in 1..n}

\* Model patterns as a Route carries them, and model names of requests.
PatternStrings == StringsOver({"a", "b", ".", "*", "("}, MaxLen)
ModelStrings == StringsOver({"a", "b", "."}, MaxLen)

\* Times of the day as "HH:MM" with the minute of the day they denote.
Clock(text, minutes) == [text |-> text, minutes |-> minutes]
ClockTimes ==
    {Clock(<<"0", "0", ":", "0", "0">>, 0), Clock(<<"0", "6", ":", "0", "0">>, 360),
     Clock(<<"0", "9", ":", "3", "0">>, 570), Clock(<<"1", "7", ":", "0", "0">>, 1020),
     Clock(<<"2", "2", ":", "0", "0">>, 1320), Clock(<<"2", "3", ":", "5", "9">>, 1439)}

\* Instants in UTC at which a window is consulted.
Instants ==
    [weekday : {1}, hour : {0, 5, 6, 7, 9, 12, 17, 22, 23}, minute : {0, 30, 59}]

\* The operators of a threshold with their text.
OperatorTexts ==
    {[op |-> ">", text |-> <<">">>], [op |-> "<", text |-> <<"<">>],
     [op |-> ">=", text |-> <<">", "=">>], [op |-> "<=", text |-> <<"<", "=">>],
     [op |-> "==", text |-> <<"=", "=">>]}

\* Threshold values as written, with the number of seconds (or the plain
\* number) they denote as a fraction.
Written(text, num, den) == [text |-> text, num |-> num, den |-> den]
ValueTexts ==
    {Written(<<"5", "0">>, 50, 1), Written(<<"0", ".", "5">>, 1, 2),
     Written(<<"1", "0", "0", "m", "s">>, 1, 10), Written(<<"5", "0", "m", "s">>, 1, 20),
     Written(<<"2", "s">>, 2, 1), Written(<<"1", ".", "5", "s">>, 3, 2),
     Written(<<"-", "5">>, 0 - 5, 1), Written(<<"1", ".", "2", "5">>, 5, 4)}

\* The values a threshold is evaluated on.
Fraction(num, den) == [num |-> num, den |-> den]
Measured ==
    {Fraction(49, 1), Fraction(50, 1), Fraction(51, 1), Fraction(1, 10), Fraction(1, 20),
     Fraction(1, 2), Fraction(2, 1), Fraction(3, 2), Fraction(5, 4), Fraction(0 - 5, 1),
     Fraction(0 - 6, 1), Fraction(0, 1)}

\* Endpoint slices as the informer delivers them: a Termite service or
\* another one, with and without the app, pool and workload-type labels,
\* with several port lists and with ready and unready endpoints.
SliceInputs ==
    {[Slice("s1", service, app, pool, ports, endpoints) EXCEPT !.workloadType = workloadType] :
        service \in {ServiceA, <<"d", "b">>},
        app \in {"", "termite"},
        pool \in {<<>>, <<"b">>},
        workloadType \in {"", "burst"},
        ports \in {<<>>, HttpPorts,
                   <<[name |-> Some("metrics"), port |-> Some(9090)],
                     [name |-> Some("api"), port |-> Some(9000)]>>,
                   <<[name |-> Absent, port |-> Some(9090)]>>,
                   <<[name |-> Some("api"), port |-> Absent],
                     [name |-> Some("http"), port |-> Some(8080)]>>},
        endpoints \in {<<Ready(<<"h1", "h2">>)>>,
                       <<[addresses |-> <<"h1">>, ready |-> Some(FALSE)], Ready(<<"h2">>)>>,
                       <<[addresses |-> <<"h1">>, ready |-> Absent]>>}}

\* Destination lists of a TermiteRoute presented for admission: up to two
\* entries, with and without a pool, with weights in and out of range, and
\* without a condition or with one of two.
RouteEntries ==
    [pool : {"", "A", "B"}, weight : {0 - 1, 50, 101},
     condition : {Absent, Some([BaseCondition EXCEPT !.modelLoaded = TRUE]),
                  Some([BaseCondition EXCEPT !.queueDepth = Some(<<"<", "1", "0">>)])}]
RouteLists == {<<>>} \cup {<<d>> : d \in RouteEntries} \cup (RouteEntries \X RouteEntries)

\* TermiteRoute specs presented for admission: each block well formed or
\* breaking one of its rules.
RouteTimeWindows ==
    {Absent,
     Some([Start |-> <<"0", "9", ":", "3", "0">>, End |-> <<"1", "7", ":", "0", "0">>, Days |-> {1, 6}]),
     Some([Start |-> <<"9", ":", "3", "0">>, End |-> <<"2", "3", ":", "5", "9">>, Days |-> {}]),
     Some([Start |-> <<"2", "4", ":", "0", "0">>, End |-> <<"1", "7", ":", "0", "0">>, Days |-> {}]),
     Some([Start |-> <<"0", "9", ":", "3", "0">>, End |-> <<"1", "7", ":", "6", "0">>, Days |-> {}]),
     Some([Start |-> <<"0", "9", ":", "3", "0">>, End |-> <<"1", "7", ":", "0", "0">>, Days |-> {0, 7}])}
RouteHeaders ==
    {{}, {[name |-> "x", Exact |-> <<"a">>, Prefix |-> <<>>, Regex |-> <<>>]},
     {[name |-> "x", Exact |-> <<>>, Prefix |-> <<>>, Regex |-> <<"a", ".", "*">>]},
     {[name |-> "x", Exact |-> <<>>, Prefix |-> <<>>, Regex |-> <<>>]},
     {[name |-> "x", Exact |-> <<>>, Prefix |-> <<"a">>, Regex |-> <<"(">>],
      [name |-> "", Exact |-> <<"a">>, Prefix |-> <<>>, Regex |-> <<>>]}}
RouteMatches ==
    [Operations : {<<>>, <<"embed", "delete">>},
     Models : {<<>>, <<<<"a", "*">>>>, <<<<"(", "*">>>>},
     Headers : RouteHeaders, TimeWindow : RouteTimeWindows]
RouteFallbacks ==
    {Absent, Some([Action |-> "reject", RedirectPool |-> ""]),
     Some([Action |-> "redirect", RedirectPool |-> "B"]),
     Some([Action |-> "redirect", RedirectPool |-> ""])}
RouteRateLimits ==
    {Absent, Some([RequestsPerSecond |-> 10, BurstSize |-> Absent]),
     Some([RequestsPerSecond |-> 10, BurstSize |-> Some(0)]),
     Some([RequestsPerSecond |-> 0, BurstSize |-> Some(5)]),
     Some([RequestsPerSecond |-> 10, BurstSize |-> Some(0 - 1)])}
RouteRetries ==
    {Absent, Some([Attempts |-> 3, RetryOn |-> <<"5xx", "reset">>]),
     Some([Attempts |-> 0, RetryOn |-> <<"5xx", "timeout">>])}
RouteSpecs ==
    [Route : {<<>>, <<[pool |-> "A", weight |-> 100, condition |-> Absent]>>,
              <<[pool |-> "A", weight |-> 0, condition |-> Absent],
                [pool |-> "", weight |-> 50, condition |-> Absent]>>,
              <<[pool |-> "A", weight |-> 101, condition |-> Absent]>>},
     Match : RouteMatches, Fallback : RouteFallbacks,
     RateLimiting : RouteRateLimits, Retry : RouteRetries]

\* Fallback blocks of a TermiteRoute object as the informer delivers them:
\* each action, without an errorResponse block, with one that sets no
\* status code, and with one that sets it.
FallbackBlocks ==
    {Some([action |-> action, redirectPool |-> pool, errorResponse |-> e]) :
        action \in {"queue", "reject", "redirect"},
        pool \in {"", "B"},
        e \in {Absent} \cup
              {Some([statusCode |-> c, message |-> m, retryAfter |-> ra]) :
                  c \in {Absent, Some(503), Some(429), Some(500)},
                  m \in {"", "busy"},
                  ra \in {Absent, Some(30)}}}

\* Nodes without and with embedding models, and request bodies: one that
\* is not JSON, and requests with and without a model name.
EmbedNodes == [embedderRegistry : {Absent, Some({"m"}), Some({"m", "n"})}]
EmbedBodies ==
    {Malformed} \cup [model : {"", "m"}, input : {<<"hello">>, <<"hello", "world">>}]

\* Lists of up to MaxVectors vectors of up to MaxDimension float32 values
\* each: 0.0, 1.0 and 2.0 by their bits.
MaxVectors == 2
MaxDimension == 2
FloatBits == {0, 1065353216, 1073741824}
FloatVectors == {<<>>} \cup StringsOver(FloatBits, MaxDimension)
FloatArrays == {<<>>} \cup StringsOver(FloatVectors, MaxVectors)

EvalInit ==
    /\ StoreIdle
    /\ LimiterIdle
    /\ WatcherIdle
    /\ TopologyIdle
    /\ PoolIdle
    /\ CacheIdle
    /\ CallsIdle
    /\ last = [op |-> "none"]

\* Each call works on its own input and keeps nothing from one call to the
\* next, so every call starts from the initial state.

\* matchRoute tests the model of a request against a compiled pattern of a route.
MatchModel(pattern, model) ==
    /\ last' = [op |-> "MatchModel", pattern |-> pattern, model |-> model,
                result |-> MatchString(CompileModelPattern(pattern), model)]
    /\ UNCHANGED <<routes, latest, notStore>>

\* A window parsed from its start and end is consulted at the instant t.
WindowAt(start, end, t) ==
    /\ last' = [op |-> "IsActive", start |-> start, end |-> end, t |-> t,
                result |-> IsActive(parseTimeWindow([start |-> Some(start.text),
                                                     end |-> Some(end.text),
                                                     days |-> {}]), t)]
    /\ UNCHANGED <<routes, latest, notStore>>

\* A threshold parsed from the operator and the value as written is evaluated on x.
ThresholdOn(o, v, x) ==
    /\ last' = [op |-> "Evaluate", operator |-> o.op, value |-> v, x |-> x,
                cond |-> ParseThresholdCondition(o.text \o v.text),
                result |-> Evaluate(ParseThresholdCondition(o.text \o v.text), x)]
    /\ UNCHANGED <<routes, latest, notStore>>

\* The watcher processes an endpoint slice on the empty registry.
SliceDelivered(s) ==
    /\ registry' = processEndpointSlice(registry, s)
    /\ last' = [op |-> "processEndpointSlice", obj |-> s]
    /\ UNCHANGED notRegistry

\* The webhook validates the destination list of a route.
RouteAdmission(route) ==
    /\ last' = [op |-> "validateRouteDestinations", route |-> route,
                err |-> validateRouteDestinations(route)]
    /\ UNCHANGED <<routes, latest, notStore>>

\* A client posts the body to /api/embed of the node.
EmbedPosted(node, body) ==
    /\ \E status \in EmbedStatuses(node, body) :
          last' = [op |-> "POST /api/embed", node |-> node, body |-> body,
                   status |-> status]
    /\ UNCHANGED <<routes, latest, notStore>>

\* The data is serialized and the bytes are deserialized.
RoundTrip(data) ==
    /\ last' = [op |-> "SerializeFloatArrays", data |-> data,
                bytes |-> SerializeFloatArrays(data),
                back |-> DeserializeFloatArrays(SerializeFloatArrays(data))]
    /\ UNCHANGED <<routes, latest, notStore>>

\* The watcher converts a TermiteRoute object that carries the fallback f.
FallbackConverted(f) ==
    /\ last' = [op |-> "convertRoute", fallback |-> f.v,
                route |-> convertRoute([BaseObject(<<"a">>) EXCEPT !.fallback = f], 0)]
    /\ UNCHANGED <<routes, latest, notStore>>

\* TermiteRoute.ValidateCreate
TermiteRouteValidateCreate(r) ==
    /\ \E err \in validateTermiteRoute(r) :
          last' = [op |-> "TermiteRoute.ValidateCreate", spec |-> r, err |-> err]
    /\ UNCHANGED <<routes, latest, notStore>>

\* TermiteRoute.ValidateUpdate: the old object is not consulted.
TermiteRouteValidateUpdate(r) ==
    /\ \E err \in validateTermiteRoute(r) :
          last' = [op |-> "TermiteRoute.ValidateUpdate", spec |-> r, err |-> err]
    /\ UNCHANGED <<routes, latest, notStore>>

EvalNext ==
    /\ last.op = "none"
    /\ \/ \E pattern \in PatternStrings, model \in ModelStrings : MatchModel(pattern, model)
       \/ \E start \in ClockTimes, end \in ClockTimes, t \in Instants : WindowAt(start, end, t)
       \/ \E o \in OperatorTexts, v \in ValueTexts, x \in Measured : ThresholdOn(o, v, x)
       \/ \E s \in SliceInputs : SliceDelivered(s)
       \/ \E route \in RouteLists : RouteAdmission(route)
       \/ \E r \in RouteSpecs : TermiteRouteValidateCreate(r)
       \/ \E r \in RouteSpecs : TermiteRouteValidateUpdate(r)
       \/ \E f \in FallbackBlocks : FallbackConverted(f)
       \/ \E data \in FloatArrays : RoundTrip(data)
       \/ \E node \in EmbedNodes, body \in EmbedBodies : EmbedPosted(node, body)

SpecEval == EvalInit /\ [][EvalNext]_vars

\* C22: for a model pattern the admission webhook accepts and a model name,
\* the compiled pattern of the route engine matches the name exactly when
\* the anchored expression of the pattern with * replaced by .* (the one
\* the webhook compiles) matches it.
C22_PatternIsAnchoredGlob ==
    ( /\ last.op = "MatchModel"
      /\ ValidModelPattern(last.pattern)
      /\ GlobRegexp(last.pattern) # CompileError )
    => (last.result <=> MatchString(GlobRegexp(last.pattern), last.model))

\* The hosts of the ready endpoints of a slice.
ReadyAddresses(s) ==
    UNION {{s.endpoints[i].addresses[k] : k \in 1..Len(s.endpoints[i].addresses)} :
              i \in {j \in 1..Len(s.endpoints) : s.endpoints[j].ready = Some(TRUE)}}

\* The port entries of a slice named http or api.
NamedPorts(s) == {s.ports[i] : i \in {j \in 1..Len(s.ports) : s.ports[j].name \in {Some("http"), Some("api")}}}

C30_DuplicatePoolsRejected ==
    ( /\ last.op = "validateRouteDestinations"
      /\ \E i, j \in 1..Len(last.route) :
            /\ i < j
            /\ last.route[i].pool = last.route[j].pool
            /\ \/ last.route[i].condition = Absent
               \/ last.route[j].condition = Absent
               \/ last.route[i].condition = last.route[j].condition )
    => last.err # "nil"

\* A time of the day written as hour, colon, minute: an hour of one or two
\* digits up to 23 and a minute of two digits up to 59.
InClockForm(s) ==
    /\ Len(SplitOn(s, ":")) = 2
    /\ Len(SplitOn(s, ":")[1]) \in 1..2
    /\ Len(SplitOn(s, ":")[2]) = 2
    /\ \A i \in 1..2 : \A k \in 1..Len(SplitOn(s, ":")[i]) : IsDigit(SplitOn(s, ":")[i][k])
    /\ DigitsValue(SplitOn(s, ":")[1], 0) <= 23
    /\ DigitsValue(SplitOn(s, ":")[2], 0) <= 59

C32_RejectStatusDefault ==
    (last.op = "convertRoute" /\ last.fallback.action = "reject")
    => last.route.Fallback.StatusCode =
          IF last.fallback.errorResponse # Absent
             /\ last.fallback.errorResponse.v.statusCode # Absent
          THEN last.fallback.errorResponse.v.statusCode.v
          ELSE 503

\* C33: on a node without embedding models every POST /api/embed with a
\* well-formed body is answered 503, also when it names no model; one with
\* a malformed body is answered 503 or 400.
C33_NoModelsIs503 ==
    (last.op = "POST /api/embed" /\ last.node.embedderRegistry = Absent)
    => IF last.body = Malformed THEN last.status \in {503, 400}
       ELSE last.status = 503

\* A request that names no model is answered 503 by a node without models.
C33_Witness ==
    /\ last.op = "POST /api/embed"
    /\ last.node.embedderRegistry = Absent
    /\ last.body # Malformed
    /\ last.body.model = ""
    /\ last.status = 503

\* C37: DeserializeFloatArrays gives back the data SerializeFloatArrays
\* wrote, for every list of vectors: the empty list and lists whose
\* vectors differ in length included.
C37_CodecRoundTrip ==
    last.op = "SerializeFloatArrays" => last.back = Decoded(last.data)

\* The minute of the day of an instant.
MinuteOfDay(t) == t.hour * 60 + t.minute

\* C23: a window whose start is not after its end is active exactly from
\* the start up to but not at the end; a window whose start is after its
\* end is active exactly from the start on and before the end; 22:00-06:00
\* is active at 23:00 and at 05:00 and not at 07:00.
C23_WindowActive ==
    last.op = "IsActive" =>
        /\ last.start.minutes <= last.end.minutes =>
              (last.result <=> ( /\ last.start.minutes <= MinuteOfDay(last.t)
                                 /\ MinuteOfDay(last.t) < last.end.minutes ))
        /\ last.start.minutes > last.end.minutes =>
              (last.result <=> ( \/ MinuteOfDay(last.t) >= last.start.minutes
                                 \/ MinuteOfDay(last.t) < last.end.minutes ))
        /\ (last.start.minutes = 1320 /\ last.end.minutes = 360) =>
              /\ MinuteOfDay(last.t) = 23 * 60 => last.result
              /\ MinuteOfDay(last.t) = 5 * 60 => last.result
              /\ MinuteOfDay(last.t) = 7 * 60 => ~last.result

\* C23 witness: the window 22:00-06:00 has been found active at 05:00.
C23_Witness ==
    /\ last.op = "IsActive"
    /\ last.start.minutes = 1320 /\ last.end.minutes = 360
    /\ MinuteOfDay(last.t) = 5 * 60
    /\ last.result

\* x op v on fractions with positive denominators.
Holds(op, x, v) ==
    CASE op = ">" -> x.num * v.den > v.num * x.den
      [] op = "<" -> x.num * v.den < v.num * x.den
      [] op = ">=" -> ~(x.num * v.den < v.num * x.den)
      [] op = "<=" -> ~(x.num * v.den > v.num * x.den)
      [] op = "==" -> x.num * v.den = v.num * x.den

----------------------------------------------------------------------------
(* The locks of the hot path.  Match runs between rm.mu.RLock and          *)
(* rm.mu.RUnlock, AddRoute and RemoveRoute between rm.mu.Lock and          *)
(* rm.mu.Unlock, Allow between rl.mu.Lock and rl.mu.Unlock.  A call first  *)
(* asks for its lock and then waits until the lock is granted.  The list   *)
(* AddRoute builds and sorts is a local slice, stored in rm.routes by one  *)
(* assignment before the unlock.                                           *)

Writer == "w"
Threads == Dispatchers \cup {Writer}

\* The list without the statistics Match writes.
Configs(rs) == [i \in 1..Len(rs) |-> Config(rs[i])]

\* A thread outside every call.
Outside ==
    [pc |-> "idle", req |-> NoRequest, route |-> NoRoute, name |-> <<>>,
     pre |-> <<>>, post |-> <<>>]

\* Route a at either priority and route b at the lower one; a request the
\* routes accept and one they refuse.
LockRoutes ==
    {r \in ConcurrentRoutes : r.Name = <<"a">> \/ r.Priority = 100}
LockRequests ==
    {r \in ConcurrentRequests : r.Model = <<"b">> \/ r.Operation = "rerank"}

\* sync.RWMutex: a writer holds the lock, or has asked for it.
WriterInside == calls[Writer].pc = "locked"
WriterPending == calls[Writer].pc = "lockWaiting"
ReadersInside == {d \in Dispatchers : calls[d].pc = "matching"}

\* Mutant of RLockGranted: the read lock is granted whatever the writer does.
RLockUnguarded(writerInside, writerPending) == TRUE

\* rm.mu.RLock returns when no writer holds the lock or waits for it.
RLockGranted(writerInside, writerPending) == ~writerInside /\ ~writerPending

\* rm.mu.Lock returns when no reader and no writer holds the lock.
LockGranted(readersInside, writerInside) == readersInside = {} /\ ~writerInside

\* rl.mu.Lock returns when no other Allow call holds the mutex.
MutexGranted(holders) == holders = {}

LocksInit ==
    /\ routes = <<>>
    /\ latest = [n \in RouteNames |-> NoRoute]
    /\ calls = [t \in Threads |-> Outside]
    /\ returned = <<>>
    /\ now = 0
    /\ rl = NewRateLimiter(1, 2, FALSE, 0)
    /\ admitted = <<>>
    /\ last = [op |-> "NewRouteManager"]
    /\ WatcherIdle
    /\ TopologyIdle
    /\ PoolIdle
    /\ CacheIdle

notLocks == <<latest, returned, now, admitted, informer, topologyVars, poolVars, cacheVars>>

\* A dispatcher calls Match: it asks for the read lock.
MatchCall(d, req) ==
    /\ calls[d].pc = "idle"
    /\ \A i \in 1..Len(routes) :
          routes[i].MatchedRequests
             + Cardinality({e \in Dispatchers : calls[e].pc \in {"rlockWaiting", "matching"}})
             < MaxCalls
    /\ calls' = [calls EXCEPT ![d] =
                    [Outside EXCEPT !.pc = "rlockWaiting", !.req = req,
                                    !.pre = Configs(routes), !.post = Configs(routes)]]
    /\ UNCHANGED <<routes, rl, last, notLocks>>

\* rm.mu.RLock is granted.
MatchRLock(d) ==
    /\ calls[d].pc = "rlockWaiting"
    /\ RLockGranted(WriterInside, WriterPending)
    /\ calls' = [calls EXCEPT ![d].pc = "matching"]
    /\ UNCHANGED <<routes, rl, last, notLocks>>

\* The loop of Match over rm.routes, the statistics of the route found, the
\* return and the deferred RUnlock.
MatchUnlock(d) ==
    /\ calls[d].pc = "matching"
    /\ routes' = MatchOp(routes, calls[d].req)
    /\ calls' = [calls EXCEPT ![d] = Outside]
    /\ last' = [op |-> "Match", req |-> calls[d].req, list |-> Configs(routes),
                pre |-> calls[d].pre, post |-> calls[d].post,
                result |-> IF MatchIndex(routes, calls[d].req) = 0 THEN NoRoute
                           ELSE Config(routes[MatchIndex(routes, calls[d].req)])]
    /\ UNCHANGED <<rl, notLocks>>

\* The writer calls AddRoute or RemoveRoute: it asks for the write lock.
AddRouteCall(route) ==
    /\ calls[Writer].pc = "idle"
    /\ calls' = [calls EXCEPT ![Writer] =
                    [Outside EXCEPT !.pc = "lockWaiting", !.route = route,
                                    !.name = route.Name]]
    /\ UNCHANGED <<routes, rl, last, notLocks>>

RemoveRouteCall(name) ==
    /\ calls[Writer].pc = "idle"
    /\ calls' = [calls EXCEPT ![Writer] = [Outside EXCEPT !.pc = "lockWaiting", !.name = name]]
    /\ UNCHANGED <<routes, rl, last, notLocks>>

\* rm.mu.Lock is granted.
WriterLock ==
    /\ calls[Writer].pc = "lockWaiting"
    /\ LockGranted(ReadersInside, WriterInside)
    /\ calls' = [calls EXCEPT ![Writer].pc = "locked", ![Writer].pre = Configs(routes)]
    /\ UNCHANGED <<routes, rl, last, notLocks>>

\* The body of AddRoute or RemoveRoute up to rm.routes = newRoutes, and the
\* deferred Unlock; the calls in progress are told of the new list.
WriterUnlock ==
    /\ calls[Writer].pc = "locked"
    /\ routes' = IF calls[Writer].route = NoRoute
                 THEN RemoveRouteOp(routes, calls[Writer].name)
                 ELSE AddRouteOp(routes, calls[Writer].route)
    /\ calls' = [t \in Threads |->
                    IF t = Writer THEN Outside
                    ELSE IF calls[t].pc \in {"rlockWaiting", "matching"}
                         THEN [calls[t] EXCEPT !.post = Configs(routes')]
                         ELSE calls[t]]
    /\ last' = [op |-> "Mutation", name |-> calls[Writer].name]
    /\ UNCHANGED <<rl, notLocks>>

\* A dispatcher calls Allow: it asks for the mutex of the limiter.
AllowCall(d) ==
    /\ calls[d].pc = "idle"
    /\ calls' = [calls EXCEPT ![d].pc = "mutexWaiting"]
    /\ UNCHANGED <<routes, rl, last, notLocks>>

\* rl.mu.Lock is granted.
AllowLock(d) ==
    /\ calls[d].pc = "mutexWaiting"
    /\ MutexGranted({e \in Dispatchers : calls[e].pc = "allowing"})
    /\ calls' = [calls EXCEPT ![d].pc = "allowing"]
    /\ UNCHANGED <<routes, rl, last, notLocks>>

\* The body of Allow and the deferred Unlock.
AllowUnlock(d) ==
    /\ calls[d].pc = "allowing"
    /\ rl' = AllowOp(rl, "m1", now).limiter
    /\ calls' = [calls EXCEPT ![d] = Outside]
    /\ last' = [op |-> "Allow", model |-> "m1", ok |-> AllowOp(rl, "m1", now).ok]
    /\ UNCHANGED <<routes, notLocks>>

LocksNext ==
    \/ \E d \in Dispatchers, req \in LockRequests : MatchCall(d, req)
    \/ \E d \in Dispatchers : MatchRLock(d)
    \/ \E d \in Dispatchers : MatchUnlock(d)
    \/ \E route \in LockRoutes : AddRouteCall(route)
    \/ \E name \in {<<"a">>, <<"b">>} : RemoveRouteCall(name)
    \/ WriterLock
    \/ WriterUnlock
    \/ \E d \in Dispatchers : AllowCall(d)
    \/ \E d \in Dispatchers : AllowLock(d)
    \/ \E d \in Dispatchers : AllowUnlock(d)

SpecLocks == LocksInit /\ [][LocksNext]_vars

\* C25: a Match call and an Allow call never wait for another thread: when
\* a dispatcher has asked for the read lock of the store, or for the mutex
\* of the limiter, the lock is granted at once.
C25_HotPathNeverWaits ==
    \A d \in Dispatchers :
        /\ calls[d].pc = "rlockWaiting" => RLockGranted(WriterInside, WriterPending)
        /\ calls[d].pc = "mutexWaiting" =>
              MutexGranted({e \in Dispatchers : calls[e].pc = "allowing"})

\* The order AddRoute leaves the list in.
InOrder(rs) == \A i \in 1..(Len(rs) - 1) : RouteLess(rs[i], rs[i + 1])

\* C26: no Match call reads the list while AddRoute or RemoveRoute holds the
\* store; the list a Match call evaluates is sorted and is the list as it
\* was when Match was called or as the latest mutation during the call has
\* left it, and the route returned is the first route of that list that
\* accepts the request.
C26_MatchSeesWholeList ==
    /\ ~(WriterInside /\ ReadersInside # {})
    /\ \A d \in ReadersInside :
          /\ InOrder(routes)
          /\ Configs(routes) \in {calls[d].pre, calls[d].post}
    /\ last.op = "Match" =>
          /\ last.list \in {last.pre, last.post}
          /\ InOrder(last.list)
          /\ \/ /\ last.result = NoRoute
                /\ \A i \in 1..Len(last.list) : ~matchRoute(last.list[i], last.req)
             \/ \E i \in 1..Len(last.list) :
                   /\ last.result = last.list[i]
                   /\ matchRoute(last.list[i], last.req)
                   /\ \A j \in 1..(i - 1) : ~matchRoute(last.list[j], last.req)

\* C26 witness: a Match call asked for the lock before a mutation and was
\* granted it after, and has returned the first accepting route of the
\* list the mutation left, which differs from the list at the call.
C26_Witness ==
    /\ last.op = "Match"
    /\ last.pre # last.post
    /\ last.list = last.post
    /\ Len(last.list) = 2
    /\ last.result = last.list[1]
    /\ matchRoute(last.list[2], last.req)

----------------------------------------------------------------------------
(* The reranking cache (CachedReranker) under concurrent Rerank calls.     *)
(* A goroutine is idle or inside Rerank: after the cache lookup missed,    *)
(* leading the singleflight call (before the reranker ran, after it ran,   *)
(* after fn returned), waiting on the call of another goroutine, or back   *)
(* from sfGroup.Do.  Expired items stay in the cache and Get passes them   *)
(* over, which no caller can tell from their removal by the cleaner.       *)

MaxReranks == 2     \* Rerank calls started in one behaviour
RerankingCacheTTL == 2   \* 2 * time.Minute, the clock of this component ticking in minutes

RerankError == [error |-> "rerank"]
Scores == {<<1, 2>>, <<2, 1>>}      \* score lists the reranker can return
Outcomes == {Some(scores) : scores \in Scores} \cup {RerankError}
Goroutines == {"g1", "g2"}
RerankerModel == <<"m">>
RerankRequests ==
    {[query |-> <<"q">>, prompts |-> <<<<"a">>, <<"b">>>>],
     [query |-> <<"q">>, prompts |-> <<<<"b">>, <<"a">>>>]}

RECURSIVE WritePrompts(_, _)
\* The bytes cacheKey writes for the prompts from index i on.
WritePrompts(prompts, i) ==
    IF i > Len(prompts) THEN <<>>
    ELSE <<"p", (i - 1) \div 256, (i - 1) % 256, ":">> \o prompts[i] \o <<"|">>
         \o WritePrompts(prompts, i + 1)

\* CachedReranker.cacheKey: the bytes written to the hash; Sum64 is taken
\* to tell the byte strings of this model apart.
cacheKey(model, query, prompts) ==
    model \o <<"|", "q", ":">> \o query \o <<"|">> \o WritePrompts(prompts, 1)

RerankKeys == {cacheKey(RerankerModel, r.query, r.prompts) : r \in RerankRequests}

\* An item is expired once its expiry lies before the clock.
Expired(item, t) == item.expires < t

\* cache.Get(key): the live item, Absent without one.
CacheGet(items, key, t) ==
    IF items[key] = Absent \/ Expired(items[key].v, t) THEN Absent ELSE items[key]

\* Get touches the item it returns: the expiry starts anew.
CacheTouch(items, key, t) ==
    [items EXCEPT ![key] = Some([@.v EXCEPT !.expires = t + RerankingCacheTTL])]

\* Mutant of CacheSet: the scores are not stored.
CacheSetDropped(items, key, scores, t) == items

\* cache.Set(key, scores, ttlcache.DefaultTTL)
CacheSet(items, key, scores, t) ==
    [items EXCEPT ![key] = Some([scores |-> scores, expires |-> t + RerankingCacheTTL])]

NotInRerank ==
    [pc |-> "idle", key |-> <<>>, result |-> Absent, shared |-> FALSE,
     alone |-> TRUE, afterSuccess |-> FALSE, afterFailure |-> FALSE, unexpired |-> FALSE]

\* NewRerankingCache, WrapReranker
CacheInit ==
    /\ cache = [k \in RerankKeys |-> Absent]
    /\ sfGroup = [k \in RerankKeys |-> Absent]
    /\ stats = [hits |-> 0, misses |-> 0, sfHits |-> 0]
    /\ reranked = [started |-> 0, failed |-> FALSE, expired |-> FALSE,
                   invoked |-> [k \in RerankKeys |-> 0],
                   ended |-> [k \in RerankKeys |-> Absent]]
    /\ calls = [g \in Goroutines |-> NotInRerank]
    /\ returned = <<>>
    /\ now = 0
    /\ rl = NoLimiter
    /\ admitted = <<>>
    /\ last = [op |-> "NewCachedReranker"]
    /\ StoreIdle
    /\ WatcherIdle
    /\ TopologyIdle
    /\ PoolIdle

notCache == <<storeVars, rl, admitted, informer, topologyVars, poolVars, returned>>

Quiet(g) == \A o \in Goroutines \ {g} : calls[o].pc = "idle"

\* The calls in progress when g starts a call are no longer alone.
Overlapped(g) ==
    [o \in Goroutines |-> IF o # g /\ calls[o].pc # "idle"
                          THEN [calls[o] EXCEPT !.alone = FALSE] ELSE calls[o]]

\* How a call that ends enters the history of its key.
Ended(key, result, alone) ==
    [reranked EXCEPT !.ended[key] = Some([ok |-> result # RerankError, alone |-> alone])]

\* g calls Rerank: the key and the cache lookup. A hit is counted and
\* returned; after a miss g goes on to sfGroup.Do.
RerankCall(g, req) ==
    LET key == cacheKey(RerankerModel, req.query, req.prompts)
        item == CacheGet(cache, key, now)
        afterSuccess == reranked.ended[key] # Absent /\ reranked.ended[key].v.ok
        afterFailure == /\ reranked.ended[key] # Absent
                        /\ ~reranked.ended[key].v.ok
                        /\ reranked.ended[key].v.alone
        unexpired == cache[key] = Absent \/ ~Expired(cache[key].v, now)
        log == [reranked EXCEPT !.started = @ + 1,
                                !.expired = @ \/ ~unexpired]
    IN  /\ calls[g].pc = "idle"
        /\ reranked.started < MaxReranks
        /\ IF item # Absent
           THEN /\ stats' = [stats EXCEPT !.hits = @ + 1]
                /\ cache' = CacheTouch(cache, key, now)
                /\ calls' = Overlapped(g)
                /\ reranked' = [log EXCEPT !.ended[key] =
                                   Some([ok |-> TRUE, alone |-> Quiet(g)])]
                /\ last' = [op |-> "Rerank", g |-> g, key |-> key, path |-> "hit",
                            result |-> Some(item.v.scores), alone |-> Quiet(g),
                            afterSuccess |-> afterSuccess, afterFailure |-> afterFailure,
                            unexpired |-> unexpired]
           ELSE /\ calls' = [Overlapped(g) EXCEPT ![g] =
                               [NotInRerank EXCEPT !.pc = "missed", !.key = key,
                                                   !.alone = Quiet(g),
                                                   !.afterSuccess = afterSuccess,
                                                   !.afterFailure = afterFailure,
                                                   !.unexpired = unexpired]]
                /\ reranked' = log
                /\ UNCHANGED <<stats, cache, last>>
        /\ UNCHANGED <<sfGroup, now, notCache>>

\* sfGroup.Do(key, fn): g joins the call in flight for the key, or starts one.
DoEnter(g) ==
    /\ calls[g].pc = "missed"
    /\ IF sfGroup[calls[g].key] # Absent
       THEN /\ sfGroup' = [sfGroup EXCEPT ![calls[g].key] = Some([dups |-> @.v.dups + 1])]
            /\ calls' = [calls EXCEPT ![g].pc = "waiting"]
       ELSE /\ sfGroup' = [sfGroup EXCEPT ![calls[g].key] = Some([dups |-> 0])]
            /\ calls' = [calls EXCEPT ![g].pc = "leading"]
    /\ UNCHANGED <<cache, stats, reranked, last, now, notCache>>

\* fn: the miss is counted and the underlying reranker runs; it returns
\* scores or an error.
Invoke(g, outcome) ==
    /\ calls[g].pc = "leading"
    /\ stats' = [stats EXCEPT !.misses = @ + 1]
    /\ reranked' = [reranked EXCEPT !.invoked[calls[g].key] = @ + 1,
                                    !.failed = @ \/ outcome = RerankError]
    /\ calls' = [calls EXCEPT ![g].pc = "computed", ![g].result = outcome]
    /\ UNCHANGED <<cache, sfGroup, last, now, notCache>>

\* fn: an error is returned as it is, scores are stored and returned.
FnReturn(g) ==
    /\ calls[g].pc = "computed"
    /\ cache' = IF calls[g].result = RerankError THEN cache
                ELSE CacheSet(cache, calls[g].key, calls[g].result.v, now)
    /\ calls' = [calls EXCEPT ![g].pc = "stored"]
    /\ UNCHANGED <<sfGroup, stats, reranked, last, now, notCache>>

\* doCall after fn: the call leaves the group and its waiters wake with the
\* result of the leader.
DoComplete(g) ==
    /\ calls[g].pc = "stored"
    /\ sfGroup' = [sfGroup EXCEPT ![calls[g].key] = Absent]
    /\ calls' = [o \in Goroutines |->
                    IF o = g
                    THEN [calls[g] EXCEPT !.pc = "returning",
                                          !.shared = sfGroup[calls[g].key].v.dups > 0]
                    ELSE IF calls[o].pc = "waiting" /\ calls[o].key = calls[g].key
                    THEN [calls[o] EXCEPT !.pc = "returning", !.shared = TRUE,
                                          !.result = calls[g].result]
                    ELSE calls[o]]
    /\ UNCHANGED <<cache, stats, reranked, last, now, notCache>>

\* Back from sfGroup.Do: the error is returned, or a shared result is
\* counted and the scores are returned.
RerankReturn(g) ==
    /\ calls[g].pc = "returning"
    /\ stats' = IF calls[g].result # RerankError /\ calls[g].shared
                THEN [stats EXCEPT !.sfHits = @ + 1] ELSE stats
    /\ reranked' = Ended(calls[g].key, calls[g].result, calls[g].alone)
    /\ last' = [op |-> "Rerank", g |-> g, key |-> calls[g].key,
                path |-> IF calls[g].shared THEN "shared" ELSE "invoked",
                result |-> calls[g].result, alone |-> calls[g].alone,
                afterSuccess |-> calls[g].afterSuccess,
                afterFailure |-> calls[g].afterFailure,
                unexpired |-> calls[g].unexpired]
    /\ calls' = [calls EXCEPT ![g] = NotInRerank]
    /\ UNCHANGED <<cache, sfGroup, now, notCache>>

\* A minute passes.
Minute ==
    /\ now < MaxTime
    /\ now' = now + 1
    /\ UNCHANGED <<cache, sfGroup, stats, reranked, calls, last, notCache>>

CacheNext ==
    \/ \E g \in Goroutines, req \in RerankRequests : RerankCall(g, req)
    \/ \E g \in Goroutines : DoEnter(g)
    \/ \E g \in Goroutines, outcome \in Outcomes : Invoke(g, outcome)
    \/ \E g \in Goroutines : FnReturn(g)
    \/ \E g \in Goroutines : DoComplete(g)
    \/ \E g \in Goroutines : RerankReturn(g)
    \/ Minute

SpecCache == CacheInit /\ [][CacheNext]_vars

\* C35: as long as no item has expired and the reranker has returned no
\* error, the underlying reranker has been called at most once for a key,
\* whatever the interleaving of the Rerank calls.
C35_InvokedAtMostOnce ==
    (~reranked.expired /\ ~reranked.failed)
    => \A k \in RerankKeys : reranked.invoked[k] <= 1

\* A call that starts after a call with its key has succeeded, while the
\* item of the key has not expired, is answered from the cache with the
\* scores stored there, counts one hit and does not call the reranker.
HitAfterSuccess ==
    \A g \in Goroutines, req \in RerankRequests :
       LET key == cacheKey(RerankerModel, req.query, req.prompts) IN
       ( /\ RerankCall(g, req)
         /\ reranked.ended[key] # Absent /\ reranked.ended[key].v.ok
         /\ cache[key] = Absent \/ ~Expired(cache[key].v, now) )
       => /\ cache[key] # Absent
          /\ last' = [last' EXCEPT !.path = "hit", !.result = Some(cache[key].v.scores)]
          /\ calls'[g].pc = "idle"
          /\ stats'.hits = stats.hits + 1
          /\ reranked'.invoked = reranked.invoked

\* A failing call of the reranker stores nothing, and the Rerank calls it
\* answers return the error.
FailureStoresNothing ==
    /\ \A g \in Goroutines :
          (FnReturn(g) /\ calls[g].result = RerankError) => cache' = cache
    /\ \A g \in Goroutines :
          (DoComplete(g) /\ calls[g].result = RerankError)
          => \A o \in Goroutines :
                (o = g \/ (calls[o].pc = "waiting" /\ calls[o].key = calls[g].key))
                => calls'[o].result = RerankError

\* A call made on its own after a call with its key that failed on its own
\* calls the reranker again.
RetryAfterFailure ==
    (last.op = "Rerank" /\ last.afterFailure /\ last.alone) => last.path = "invoked"

\* C36: after a Rerank call has succeeded, a later call with the same key
\* made before the item expires returns the stored scores and counts one
\* hit without calling the reranker; a failing call stores nothing and
\* returns the error, and the next call with the key calls the reranker again.
C36_HitsAndRetries ==
    /\ [][HitAfterSuccess /\ FailureStoresNothing]_vars
    /\ []RetryAfterFailure

\* A call has called the reranker and succeeded, and after a minute the
\* next one has been answered from the cache.
C36_Witness ==
    /\ last.op = "Rerank"
    /\ last.path = "hit"
    /\ last.afterSuccess
    /\ now >= 1
    /\ stats.misses = 1
    /\ stats.hits = 1


----------------------------------------------------------------------------
(* The rate limiter of an admitted TermiteRoute under Allow calls *)

\* spec.rateLimiting blocks offered to the admission webhook.
OfferedRateLimits ==
    {Some([RequestsPerSecond |-> rps, BurstSize |-> burst, PerModel |-> pm]) :
        rps \in {0, 1, 2}, burst \in {Absent, Some(0 - 1), Some(0), Some(1)},
        pm \in BOOLEAN}

\* The blocks validateRateLimiting lets pass.
AdmittedRateLimits == {x \in OfferedRateLimits : validateRateLimiting(x) = "nil"}

\* The rateLimiting map convertRoute reads from the stored object.
StoredRateLimiting(x) ==
    Some([requestsPerSecond |-> Some(x.v.RequestsPerSecond),
          burstSize |-> x.v.BurstSize, perModel |-> x.v.PerModel])

\* The route of an admitted TermiteRoute has been converted at time 0.
AdmittedLimiterInit ==
    /\ StoreIdle
    /\ WatcherIdle
    /\ TopologyIdle
    /\ PoolIdle
    /\ CacheIdle
    /\ CallsIdle
    /\ now = 0
    /\ \E x \in AdmittedRateLimits :
          /\ rl = ConvertRateLimiting(StoredRateLimiting(x), 0)
          /\ last = [op |-> "convertRoute", burst |-> x.v.BurstSize]
    /\ admitted = [t \in Ticks |-> [m \in LimiterModels |-> 0]]

\* The caller of Allow keeps calling and the clock keeps advancing.
SpecAdmittedLimiter ==
    /\ AdmittedLimiterInit
    /\ [][LimiterNext]_vars
    /\ WF_vars(Tick)
    /\ \A model \in LimiterModels : WF_vars(Allow(model))

\* C40: the limiter of every admitted rate-limiting block eventually admits
\* a caller that keeps calling Allow while time advances.
C40_EventuallyAdmitted == <>(last.op = "Allow" /\ last.ok)

\* With a burst of one or more, or none given, the caller is admitted.
EventuallyAdmittedWithBurst ==
    (rl.burstSize >= 1) => <>(last.op = "Allow" /\ last.ok)

\* A limiter built with burst size 0 never holds a token.
ZeroBurstRefusesAll ==
    rl.burstSize = 0 => [](rl.tokens = 0 /\ (last.op = "Allow" => ~last.ok))

============================================================================
